---- MODULE Spec2Model ----
(***************************************************************************)
(* Contrast: a two-player game on a 5x5 board with directional tiles.      *)
(* This module models the rules engine (Rules::legal_moves, Rules::is_win, *)
(* Rules::is_loss) over the precomputed move table, and GameState's        *)
(* reset / apply_move, and states the rules-engine properties.             *)
(***************************************************************************)
EXTENDS Integers, Sequences, FiniteSets, TLC

\* ------------------------------------------------------------------ types

\* Geometry (types.hpp): the table header sizes its rays from these.
BOARD_W == 5
BOARD_H == 5

\* enum class Player { None, Black, White } with the 0/1/2 encoding.
PlayerNone == 0
PlayerBlack == 1
PlayerWhite == 2

\* enum class TileType { None, Black, Gray } with the 0/1/2 encoding.
TileNone == 0
TileBlack == 1
TileGray == 2

kBoardSize == BOARD_W * BOARD_H
kMaxRayLength == (IF BOARD_W > BOARD_H THEN BOARD_W ELSE BOARD_H) - 1

Players == {PlayerBlack, PlayerWhite}

\* struct PrecomputedDirection { step_count; rel_index[kMaxRayLength] }
D(n, r) == [step_count |-> n, rel_index |-> r]

\* struct MoveTableEntry { dir_count; dirs[kMaxDirections] }
E(n, ds) == [dir_count |-> n, dirs |-> ds]

\* kMoveTable[tile][origin], one row per origin cell, transcribed entry by
\* entry (tuples are 1-based: entry k of the source is element k+1 here).
kMoveTableNone ==
  <<
    E(4, <<D(4, <<1, 2, 3, 4>>), D(0, <<0, 0, 0, 0>>), D(4, <<5, 10, 15, 20>>), D(0, <<0, 0, 0, 0>>), D(0, <<0, 0, 0, 0>>), D(0, <<0, 0, 0, 0>>), D(0, <<0, 0, 0, 0>>), D(0, <<0, 0, 0, 0>>)>>),
    E(4, <<D(3, <<1, 2, 3, 0>>), D(1, <<-1, 0, 0, 0>>), D(4, <<5, 10, 15, 20>>), D(0, <<0, 0, 0, 0>>), D(0, <<0, 0, 0, 0>>), D(0, <<0, 0, 0, 0>>), D(0, <<0, 0, 0, 0>>), D(0, <<0, 0, 0, 0>>)>>),
    E(4, <<D(2, <<1, 2, 0, 0>>), D(2, <<-1, -2, 0, 0>>), D(4, <<5, 10, 15, 20>>), D(0, <<0, 0, 0, 0>>), D(0, <<0, 0, 0, 0>>), D(0, <<0, 0, 0, 0>>), D(0, <<0, 0, 0, 0>>), D(0, <<0, 0, 0, 0>>)>>),
    E(4, <<D(1, <<1, 0, 0, 0>>), D(3, <<-1, -2, -3, 0>>), D(4, <<5, 10, 15, 20>>), D(0, <<0, 0, 0, 0>>), D(0, <<0, 0, 0, 0>>), D(0, <<0, 0, 0, 0>>), D(0, <<0, 0, 0, 0>>), D(0, <<0, 0, 0, 0>>)>>),
    E(4, <<D(0, <<0, 0, 0, 0>>), D(4, <<-1, -2, -3, -4>>), D(4, <<5, 10, 15, 20>>), D(0, <<0, 0, 0, 0>>), D(0, <<0, 0, 0, 0>>), D(0, <<0, 0, 0, 0>>), D(0, <<0, 0, 0, 0>>), D(0, <<0, 0, 0, 0>>)>>),
    E(4, <<D(4, <<1, 2, 3, 4>>), D(0, <<0, 0, 0, 0>>), D(3, <<5, 10, 15, 0>>), D(1, <<-5, 0, 0, 0>>), D(0, <<0, 0, 0, 0>>), D(0, <<0, 0, 0, 0>>), D(0, <<0, 0, 0, 0>>), D(0, <<0, 0, 0, 0>>)>>),
    E(4, <<D(3, <<1, 2, 3, 0>>), D(1, <<-1, 0, 0, 0>>), D(3, <<5, 10, 15, 0>>), D(1, <<-5, 0, 0, 0>>), D(0, <<0, 0, 0, 0>>), D(0, <<0, 0, 0, 0>>), D(0, <<0, 0, 0, 0>>), D(0, <<0, 0, 0, 0>>)>>),
    E(4, <<D(2, <<1, 2, 0, 0>>), D(2, <<-1, -2, 0, 0>>), D(3, <<5, 10, 15, 0>>), D(1, <<-5, 0, 0, 0>>), D(0, <<0, 0, 0, 0>>), D(0, <<0, 0, 0, 0>>), D(0, <<0, 0, 0, 0>>), D(0, <<0, 0, 0, 0>>)>>),
    E(4, <<D(1, <<1, 0, 0, 0>>), D(3, <<-1, -2, -3, 0>>), D(3, <<5, 10, 15, 0>>), D(1, <<-5, 0, 0, 0>>), D(0, <<0, 0, 0, 0>>), D(0, <<0, 0, 0, 0>>), D(0, <<0, 0, 0, 0>>), D(0, <<0, 0, 0, 0>>)>>),
    E(4, <<D(0, <<0, 0, 0, 0>>), D(4, <<-1, -2, -3, -4>>), D(3, <<5, 10, 15, 0>>), D(1, <<-5, 0, 0, 0>>), D(0, <<0, 0, 0, 0>>), D(0, <<0, 0, 0, 0>>), D(0, <<0, 0, 0, 0>>), D(0, <<0, 0, 0, 0>>)>>),
    E(4, <<D(4, <<1, 2, 3, 4>>), D(0, <<0, 0, 0, 0>>), D(2, <<5, 10, 0, 0>>), D(2, <<-5, -10, 0, 0>>), D(0, <<0, 0, 0, 0>>), D(0, <<0, 0, 0, 0>>), D(0, <<0, 0, 0, 0>>), D(0, <<0, 0, 0, 0>>)>>),
    E(4, <<D(3, <<1, 2, 3, 0>>), D(1, <<-1, 0, 0, 0>>), D(2, <<5, 10, 0, 0>>), D(2, <<-5, -10, 0, 0>>), D(0, <<0, 0, 0, 0>>), D(0, <<0, 0, 0, 0>>), D(0, <<0, 0, 0, 0>>), D(0, <<0, 0, 0, 0>>)>>),
    E(4, <<D(2, <<1, 2, 0, 0>>), D(2, <<-1, -2, 0, 0>>), D(2, <<5, 10, 0, 0>>), D(2, <<-5, -10, 0, 0>>), D(0, <<0, 0, 0, 0>>), D(0, <<0, 0, 0, 0>>), D(0, <<0, 0, 0, 0>>), D(0, <<0, 0, 0, 0>>)>>),
    E(4, <<D(1, <<1, 0, 0, 0>>), D(3, <<-1, -2, -3, 0>>), D(2, <<5, 10, 0, 0>>), D(2, <<-5, -10, 0, 0>>), D(0, <<0, 0, 0, 0>>), D(0, <<0, 0, 0, 0>>), D(0, <<0, 0, 0, 0>>), D(0, <<0, 0, 0, 0>>)>>),
    E(4, <<D(0, <<0, 0, 0, 0>>), D(4, <<-1, -2, -3, -4>>), D(2, <<5, 10, 0, 0>>), D(2, <<-5, -10, 0, 0>>), D(0, <<0, 0, 0, 0>>), D(0, <<0, 0, 0, 0>>), D(0, <<0, 0, 0, 0>>), D(0, <<0, 0, 0, 0>>)>>),
    E(4, <<D(4, <<1, 2, 3, 4>>), D(0, <<0, 0, 0, 0>>), D(1, <<5, 0, 0, 0>>), D(3, <<-5, -10, -15, 0>>), D(0, <<0, 0, 0, 0>>), D(0, <<0, 0, 0, 0>>), D(0, <<0, 0, 0, 0>>), D(0, <<0, 0, 0, 0>>)>>),
    E(4, <<D(3, <<1, 2, 3, 0>>), D(1, <<-1, 0, 0, 0>>), D(1, <<5, 0, 0, 0>>), D(3, <<-5, -10, -15, 0>>), D(0, <<0, 0, 0, 0>>), D(0, <<0, 0, 0, 0>>), D(0, <<0, 0, 0, 0>>), D(0, <<0, 0, 0, 0>>)>>),
    E(4, <<D(2, <<1, 2, 0, 0>>), D(2, <<-1, -2, 0, 0>>), D(1, <<5, 0, 0, 0>>), D(3, <<-5, -10, -15, 0>>), D(0, <<0, 0, 0, 0>>), D(0, <<0, 0, 0, 0>>), D(0, <<0, 0, 0, 0>>), D(0, <<0, 0, 0, 0>>)>>),
    E(4, <<D(1, <<1, 0, 0, 0>>), D(3, <<-1, -2, -3, 0>>), D(1, <<5, 0, 0, 0>>), D(3, <<-5, -10, -15, 0>>), D(0, <<0, 0, 0, 0>>), D(0, <<0, 0, 0, 0>>), D(0, <<0, 0, 0, 0>>), D(0, <<0, 0, 0, 0>>)>>),
    E(4, <<D(0, <<0, 0, 0, 0>>), D(4, <<-1, -2, -3, -4>>), D(1, <<5, 0, 0, 0>>), D(3, <<-5, -10, -15, 0>>), D(0, <<0, 0, 0, 0>>), D(0, <<0, 0, 0, 0>>), D(0, <<0, 0, 0, 0>>), D(0, <<0, 0, 0, 0>>)>>),
    E(4, <<D(4, <<1, 2, 3, 4>>), D(0, <<0, 0, 0, 0>>), D(0, <<0, 0, 0, 0>>), D(4, <<-5, -10, -15, -20>>), D(0, <<0, 0, 0, 0>>), D(0, <<0, 0, 0, 0>>), D(0, <<0, 0, 0, 0>>), D(0, <<0, 0, 0, 0>>)>>),
    E(4, <<D(3, <<1, 2, 3, 0>>), D(1, <<-1, 0, 0, 0>>), D(0, <<0, 0, 0, 0>>), D(4, <<-5, -10, -15, -20>>), D(0, <<0, 0, 0, 0>>), D(0, <<0, 0, 0, 0>>), D(0, <<0, 0, 0, 0>>), D(0, <<0, 0, 0, 0>>)>>),
    E(4, <<D(2, <<1, 2, 0, 0>>), D(2, <<-1, -2, 0, 0>>), D(0, <<0, 0, 0, 0>>), D(4, <<-5, -10, -15, -20>>), D(0, <<0, 0, 0, 0>>), D(0, <<0, 0, 0, 0>>), D(0, <<0, 0, 0, 0>>), D(0, <<0, 0, 0, 0>>)>>),
    E(4, <<D(1, <<1, 0, 0, 0>>), D(3, <<-1, -2, -3, 0>>), D(0, <<0, 0, 0, 0>>), D(4, <<-5, -10, -15, -20>>), D(0, <<0, 0, 0, 0>>), D(0, <<0, 0, 0, 0>>), D(0, <<0, 0, 0, 0>>), D(0, <<0, 0, 0, 0>>)>>),
    E(4, <<D(0, <<0, 0, 0, 0>>), D(4, <<-1, -2, -3, -4>>), D(0, <<0, 0, 0, 0>>), D(4, <<-5, -10, -15, -20>>), D(0, <<0, 0, 0, 0>>), D(0, <<0, 0, 0, 0>>), D(0, <<0, 0, 0, 0>>), D(0, <<0, 0, 0, 0>>)>>)
  >>

kMoveTableBlack ==
  <<
    E(4, <<D(4, <<6, 12, 18, 24>>), D(0, <<0, 0, 0, 0>>), D(0, <<0, 0, 0, 0>>), D(0, <<0, 0, 0, 0>>), D(0, <<0, 0, 0, 0>>), D(0, <<0, 0, 0, 0>>), D(0, <<0, 0, 0, 0>>), D(0, <<0, 0, 0, 0>>)>>),
    E(4, <<D(3, <<6, 12, 18, 0>>), D(0, <<0, 0, 0, 0>>), D(1, <<4, 0, 0, 0>>), D(0, <<0, 0, 0, 0>>), D(0, <<0, 0, 0, 0>>), D(0, <<0, 0, 0, 0>>), D(0, <<0, 0, 0, 0>>), D(0, <<0, 0, 0, 0>>)>>),
    E(4, <<D(2, <<6, 12, 0, 0>>), D(0, <<0, 0, 0, 0>>), D(2, <<4, 8, 0, 0>>), D(0, <<0, 0, 0, 0>>), D(0, <<0, 0, 0, 0>>), D(0, <<0, 0, 0, 0>>), D(0, <<0, 0, 0, 0>>), D(0, <<0, 0, 0, 0>>)>>),
    E(4, <<D(1, <<6, 0, 0, 0>>), D(0, <<0, 0, 0, 0>>), D(3, <<4, 8, 12, 0>>), D(0, <<0, 0, 0, 0>>), D(0, <<0, 0, 0, 0>>), D(0, <<0, 0, 0, 0>>), D(0, <<0, 0, 0, 0>>), D(0, <<0, 0, 0, 0>>)>>),
    E(4, <<D(0, <<0, 0, 0, 0>>), D(0, <<0, 0, 0, 0>>), D(4, <<4, 8, 12, 16>>), D(0, <<0, 0, 0, 0>>), D(0, <<0, 0, 0, 0>>), D(0, <<0, 0, 0, 0>>), D(0, <<0, 0, 0, 0>>), D(0, <<0, 0, 0, 0>>)>>),
    E(4, <<D(3, <<6, 12, 18, 0>>), D(1, <<-4, 0, 0, 0>>), D(0, <<0, 0, 0, 0>>), D(0, <<0, 0, 0, 0>>), D(0, <<0, 0, 0, 0>>), D(0, <<0, 0, 0, 0>>), D(0, <<0, 0, 0, 0>>), D(0, <<0, 0, 0, 0>>)>>),
    E(4, <<D(3, <<6, 12, 18, 0>>), D(1, <<-4, 0, 0, 0>>), D(1, <<4, 0, 0, 0>>), D(1, <<-6, 0, 0, 0>>), D(0, <<0, 0, 0, 0>>), D(0, <<0, 0, 0, 0>>), D(0, <<0, 0, 0, 0>>), D(0, <<0, 0, 0, 0>>)>>),
    E(4, <<D(2, <<6, 12, 0, 0>>), D(1, <<-4, 0, 0, 0>>), D(2, <<4, 8, 0, 0>>), D(1, <<-6, 0, 0, 0>>), D(0, <<0, 0, 0, 0>>), D(0, <<0, 0, 0, 0>>), D(0, <<0, 0, 0, 0>>), D(0, <<0, 0, 0, 0>>)>>),
    E(4, <<D(1, <<6, 0, 0, 0>>), D(1, <<-4, 0, 0, 0>>), D(3, <<4, 8, 12, 0>>), D(1, <<-6, 0, 0, 0>>), D(0, <<0, 0, 0, 0>>), D(0, <<0, 0, 0, 0>>), D(0, <<0, 0, 0, 0>>), D(0, <<0, 0, 0, 0>>)>>),
    E(4, <<D(0, <<0, 0, 0, 0>>), D(0, <<0, 0, 0, 0>>), D(3, <<4, 8, 12, 0>>), D(1, <<-6, 0, 0, 0>>), D(0, <<0, 0, 0, 0>>), D(0, <<0, 0, 0, 0>>), D(0, <<0, 0, 0, 0>>), D(0, <<0, 0, 0, 0>>)>>),
    E(4, <<D(2, <<6, 12, 0, 0>>), D(2, <<-4, -8, 0, 0>>), D(0, <<0, 0, 0, 0>>), D(0, <<0, 0, 0, 0>>), D(0, <<0, 0, 0, 0>>), D(0, <<0, 0, 0, 0>>), D(0, <<0, 0, 0, 0>>), D(0, <<0, 0, 0, 0>>)>>),
    E(4, <<D(2, <<6, 12, 0, 0>>), D(2, <<-4, -8, 0, 0>>), D(1, <<4, 0, 0, 0>>), D(1, <<-6, 0, 0, 0>>), D(0, <<0, 0, 0, 0>>), D(0, <<0, 0, 0, 0>>), D(0, <<0, 0, 0, 0>>), D(0, <<0, 0, 0, 0>>)>>),
    E(4, <<D(2, <<6, 12, 0, 0>>), D(2, <<-4, -8, 0, 0>>), D(2, <<4, 8, 0, 0>>), D(2, <<-6, -12, 0, 0>>), D(0, <<0, 0, 0, 0>>), D(0, <<0, 0, 0, 0>>), D(0, <<0, 0, 0, 0>>), D(0, <<0, 0, 0, 0>>)>>),
    E(4, <<D(1, <<6, 0, 0, 0>>), D(1, <<-4, 0, 0, 0>>), D(2, <<4, 8, 0, 0>>), D(2, <<-6, -12, 0, 0>>), D(0, <<0, 0, 0, 0>>), D(0, <<0, 0, 0, 0>>), D(0, <<0, 0, 0, 0>>), D(0, <<0, 0, 0, 0>>)>>),
    E(4, <<D(0, <<0, 0, 0, 0>>), D(0, <<0, 0, 0, 0>>), D(2, <<4, 8, 0, 0>>), D(2, <<-6, -12, 0, 0>>), D(0, <<0, 0, 0, 0>>), D(0, <<0, 0, 0, 0>>), D(0, <<0, 0, 0, 0>>), D(0, <<0, 0, 0, 0>>)>>),
    E(4, <<D(1, <<6, 0, 0, 0>>), D(3, <<-4, -8, -12, 0>>), D(0, <<0, 0, 0, 0>>), D(0, <<0, 0, 0, 0>>), D(0, <<0, 0, 0, 0>>), D(0, <<0, 0, 0, 0>>), D(0, <<0, 0, 0, 0>>), D(0, <<0, 0, 0, 0>>)>>),
    E(4, <<D(1, <<6, 0, 0, 0>>), D(3, <<-4, -8, -12, 0>>), D(1, <<4, 0, 0, 0>>), D(1, <<-6, 0, 0, 0>>), D(0, <<0, 0, 0, 0>>), D(0, <<0, 0, 0, 0>>), D(0, <<0, 0, 0, 0>>), D(0, <<0, 0, 0, 0>>)>>),
    E(4, <<D(1, <<6, 0, 0, 0>>), D(2, <<-4, -8, 0, 0>>), D(1, <<4, 0, 0, 0>>), D(2, <<-6, -12, 0, 0>>), D(0, <<0, 0, 0, 0>>), D(0, <<0, 0, 0, 0>>), D(0, <<0, 0, 0, 0>>), D(0, <<0, 0, 0, 0>>)>>),
    E(4, <<D(1, <<6, 0, 0, 0>>), D(1, <<-4, 0, 0, 0>>), D(1, <<4, 0, 0, 0>>), D(3, <<-6, -12, -18, 0>>), D(0, <<0, 0, 0, 0>>), D(0, <<0, 0, 0, 0>>), D(0, <<0, 0, 0, 0>>), D(0, <<0, 0, 0, 0>>)>>),
    E(4, <<D(0, <<0, 0, 0, 0>>), D(0, <<0, 0, 0, 0>>), D(1, <<4, 0, 0, 0>>), D(3, <<-6, -12, -18, 0>>), D(0, <<0, 0, 0, 0>>), D(0, <<0, 0, 0, 0>>), D(0, <<0, 0, 0, 0>>), D(0, <<0, 0, 0, 0>>)>>),
    E(4, <<D(0, <<0, 0, 0, 0>>), D(4, <<-4, -8, -12, -16>>), D(0, <<0, 0, 0, 0>>), D(0, <<0, 0, 0, 0>>), D(0, <<0, 0, 0, 0>>), D(0, <<0, 0, 0, 0>>), D(0, <<0, 0, 0, 0>>), D(0, <<0, 0, 0, 0>>)>>),
    E(4, <<D(0, <<0, 0, 0, 0>>), D(3, <<-4, -8, -12, 0>>), D(0, <<0, 0, 0, 0>>), D(1, <<-6, 0, 0, 0>>), D(0, <<0, 0, 0, 0>>), D(0, <<0, 0, 0, 0>>), D(0, <<0, 0, 0, 0>>), D(0, <<0, 0, 0, 0>>)>>),
    E(4, <<D(0, <<0, 0, 0, 0>>), D(2, <<-4, -8, 0, 0>>), D(0, <<0, 0, 0, 0>>), D(2, <<-6, -12, 0, 0>>), D(0, <<0, 0, 0, 0>>), D(0, <<0, 0, 0, 0>>), D(0, <<0, 0, 0, 0>>), D(0, <<0, 0, 0, 0>>)>>),
    E(4, <<D(0, <<0, 0, 0, 0>>), D(1, <<-4, 0, 0, 0>>), D(0, <<0, 0, 0, 0>>), D(3, <<-6, -12, -18, 0>>), D(0, <<0, 0, 0, 0>>), D(0, <<0, 0, 0, 0>>), D(0, <<0, 0, 0, 0>>), D(0, <<0, 0, 0, 0>>)>>),
    E(4, <<D(0, <<0, 0, 0, 0>>), D(0, <<0, 0, 0, 0>>), D(0, <<0, 0, 0, 0>>), D(4, <<-6, -12, -18, -24>>), D(0, <<0, 0, 0, 0>>), D(0, <<0, 0, 0, 0>>), D(0, <<0, 0, 0, 0>>), D(0, <<0, 0, 0, 0>>)>>)
  >>

kMoveTableGray ==
  <<
    E(8, <<D(4, <<1, 2, 3, 4>>), D(0, <<0, 0, 0, 0>>), D(4, <<5, 10, 15, 20>>), D(0, <<0, 0, 0, 0>>), D(4, <<6, 12, 18, 24>>), D(0, <<0, 0, 0, 0>>), D(0, <<0, 0, 0, 0>>), D(0, <<0, 0, 0, 0>>)>>),
    E(8, <<D(3, <<1, 2, 3, 0>>), D(1, <<-1, 0, 0, 0>>), D(4, <<5, 10, 15, 20>>), D(0, <<0, 0, 0, 0>>), D(3, <<6, 12, 18, 0>>), D(0, <<0, 0, 0, 0>>), D(1, <<4, 0, 0, 0>>), D(0, <<0, 0, 0, 0>>)>>),
    E(8, <<D(2, <<1, 2, 0, 0>>), D(2, <<-1, -2, 0, 0>>), D(4, <<5, 10, 15, 20>>), D(0, <<0, 0, 0, 0>>), D(2, <<6, 12, 0, 0>>), D(0, <<0, 0, 0, 0>>), D(2, <<4, 8, 0, 0>>), D(0, <<0, 0, 0, 0>>)>>),
    E(8, <<D(1, <<1, 0, 0, 0>>), D(3, <<-1, -2, -3, 0>>), D(4, <<5, 10, 15, 20>>), D(0, <<0, 0, 0, 0>>), D(1, <<6, 0, 0, 0>>), D(0, <<0, 0, 0, 0>>), D(3, <<4, 8, 12, 0>>), D(0, <<0, 0, 0, 0>>)>>),
    E(8, <<D(0, <<0, 0, 0, 0>>), D(4, <<-1, -2, -3, -4>>), D(4, <<5, 10, 15, 20>>), D(0, <<0, 0, 0, 0>>), D(0, <<0, 0, 0, 0>>), D(0, <<0, 0, 0, 0>>), D(4, <<4, 8, 12, 16>>), D(0, <<0, 0, 0, 0>>)>>),
    E(8, <<D(4, <<1, 2, 3, 4>>), D(0, <<0, 0, 0, 0>>), D(3, <<5, 10, 15, 0>>), D(1, <<-5, 0, 0, 0>>), D(3, <<6, 12, 18, 0>>), D(1, <<-4, 0, 0, 0>>), D(0, <<0, 0, 0, 0>>), D(0, <<0, 0, 0, 0>>)>>),
    E(8, <<D(3, <<1, 2, 3, 0>>), D(1, <<-1, 0, 0, 0>>), D(3, <<5, 10, 15, 0>>), D(1, <<-5, 0, 0, 0>>), D(3, <<6, 12, 18, 0>>), D(1, <<-4, 0, 0, 0>>), D(1, <<4, 0, 0, 0>>), D(1, <<-6, 0, 0, 0>>)>>),
    E(8, <<D(2, <<1, 2, 0, 0>>), D(2, <<-1, -2, 0, 0>>), D(3, <<5, 10, 15, 0>>), D(1, <<-5, 0, 0, 0>>), D(2, <<6, 12, 0, 0>>), D(1, <<-4, 0, 0, 0>>), D(2, <<4, 8, 0, 0>>), D(1, <<-6, 0, 0, 0>>)>>),
    E(8, <<D(1, <<1, 0, 0, 0>>), D(3, <<-1, -2, -3, 0>>), D(3, <<5, 10, 15, 0>>), D(1, <<-5, 0, 0, 0>>), D(1, <<6, 0, 0, 0>>), D(1, <<-4, 0, 0, 0>>), D(3, <<4, 8, 12, 0>>), D(1, <<-6, 0, 0, 0>>)>>),
    E(8, <<D(0, <<0, 0, 0, 0>>), D(4, <<-1, -2, -3, -4>>), D(3, <<5, 10, 15, 0>>), D(1, <<-5, 0, 0, 0>>), D(0, <<0, 0, 0, 0>>), D(0, <<0, 0, 0, 0>>), D(3, <<4, 8, 12, 0>>), D(1, <<-6, 0, 0, 0>>)>>),
    E(8, <<D(4, <<1, 2, 3, 4>>), D(0, <<0, 0, 0, 0>>), D(2, <<5, 10, 0, 0>>), D(2, <<-5, -10, 0, 0>>), D(2, <<6, 12, 0, 0>>), D(2, <<-4, -8, 0, 0>>), D(0, <<0, 0, 0, 0>>), D(0, <<0, 0, 0, 0>>)>>),
    E(8, <<D(3, <<1, 2, 3, 0>>), D(1, <<-1, 0, 0, 0>>), D(2, <<5, 10, 0, 0>>), D(2, <<-5, -10, 0, 0>>), D(2, <<6, 12, 0, 0>>), D(2, <<-4, -8, 0, 0>>), D(1, <<4, 0, 0, 0>>), D(1, <<-6, 0, 0, 0>>)>>),
    E(8, <<D(2, <<1, 2, 0, 0>>), D(2, <<-1, -2, 0, 0>>), D(2, <<5, 10, 0, 0>>), D(2, <<-5, -10, 0, 0>>), D(2, <<6, 12, 0, 0>>), D(2, <<-4, -8, 0, 0>>), D(2, <<4, 8, 0, 0>>), D(2, <<-6, -12, 0, 0>>)>>),
    E(8, <<D(1, <<1, 0, 0, 0>>), D(3, <<-1, -2, -3, 0>>), D(2, <<5, 10, 0, 0>>), D(2, <<-5, -10, 0, 0>>), D(1, <<6, 0, 0, 0>>), D(1, <<-4, 0, 0, 0>>), D(2, <<4, 8, 0, 0>>), D(2, <<-6, -12, 0, 0>>)>>),
    E(8, <<D(0, <<0, 0, 0, 0>>), D(4, <<-1, -2, -3, -4>>), D(2, <<5, 10, 0, 0>>), D(2, <<-5, -10, 0, 0>>), D(0, <<0, 0, 0, 0>>), D(0, <<0, 0, 0, 0>>), D(2, <<4, 8, 0, 0>>), D(2, <<-6, -12, 0, 0>>)>>),
    E(8, <<D(4, <<1, 2, 3, 4>>), D(0, <<0, 0, 0, 0>>), D(1, <<5, 0, 0, 0>>), D(3, <<-5, -10, -15, 0>>), D(1, <<6, 0, 0, 0>>), D(3, <<-4, -8, -12, 0>>), D(0, <<0, 0, 0, 0>>), D(0, <<0, 0, 0, 0>>)>>),
    E(8, <<D(3, <<1, 2, 3, 0>>), D(1, <<-1, 0, 0, 0>>), D(1, <<5, 0, 0, 0>>), D(3, <<-5, -10, -15, 0>>), D(1, <<6, 0, 0, 0>>), D(3, <<-4, -8, -12, 0>>), D(1, <<4, 0, 0, 0>>), D(1, <<-6, 0, 0, 0>>)>>),
    E(8, <<D(2, <<1, 2, 0, 0>>), D(2, <<-1, -2, 0, 0>>), D(1, <<5, 0, 0, 0>>), D(3, <<-5, -10, -15, 0>>), D(1, <<6, 0, 0, 0>>), D(2, <<-4, -8, 0, 0>>), D(1, <<4, 0, 0, 0>>), D(2, <<-6, -12, 0, 0>>)>>),
    E(8, <<D(1, <<1, 0, 0, 0>>), D(3, <<-1, -2, -3, 0>>), D(1, <<5, 0, 0, 0>>), D(3, <<-5, -10, -15, 0>>), D(1, <<6, 0, 0, 0>>), D(1, <<-4, 0, 0, 0>>), D(1, <<4, 0, 0, 0>>), D(3, <<-6, -12, -18, 0>>)>>),
    E(8, <<D(0, <<0, 0, 0, 0>>), D(4, <<-1, -2, -3, -4>>), D(1, <<5, 0, 0, 0>>), D(3, <<-5, -10, -15, 0>>), D(0, <<0, 0, 0, 0>>), D(0, <<0, 0, 0, 0>>), D(1, <<4, 0, 0, 0>>), D(3, <<-6, -12, -18, 0>>)>>),
    E(8, <<D(4, <<1, 2, 3, 4>>), D(0, <<0, 0, 0, 0>>), D(0, <<0, 0, 0, 0>>), D(4, <<-5, -10, -15, -20>>), D(0, <<0, 0, 0, 0>>), D(4, <<-4, -8, -12, -16>>), D(0, <<0, 0, 0, 0>>), D(0, <<0, 0, 0, 0>>)>>),
    E(8, <<D(3, <<1, 2, 3, 0>>), D(1, <<-1, 0, 0, 0>>), D(0, <<0, 0, 0, 0>>), D(4, <<-5, -10, -15, -20>>), D(0, <<0, 0, 0, 0>>), D(3, <<-4, -8, -12, 0>>), D(0, <<0, 0, 0, 0>>), D(1, <<-6, 0, 0, 0>>)>>),
    E(8, <<D(2, <<1, 2, 0, 0>>), D(2, <<-1, -2, 0, 0>>), D(0, <<0, 0, 0, 0>>), D(4, <<-5, -10, -15, -20>>), D(0, <<0, 0, 0, 0>>), D(2, <<-4, -8, 0, 0>>), D(0, <<0, 0, 0, 0>>), D(2, <<-6, -12, 0, 0>>)>>),
    E(8, <<D(1, <<1, 0, 0, 0>>), D(3, <<-1, -2, -3, 0>>), D(0, <<0, 0, 0, 0>>), D(4, <<-5, -10, -15, -20>>), D(0, <<0, 0, 0, 0>>), D(1, <<-4, 0, 0, 0>>), D(0, <<0, 0, 0, 0>>), D(3, <<-6, -12, -18, 0>>)>>),
    E(8, <<D(0, <<0, 0, 0, 0>>), D(4, <<-1, -2, -3, -4>>), D(0, <<0, 0, 0, 0>>), D(4, <<-5, -10, -15, -20>>), D(0, <<0, 0, 0, 0>>), D(0, <<0, 0, 0, 0>>), D(0, <<0, 0, 0, 0>>), D(4, <<-6, -12, -18, -24>>)>>)
  >>

\* A table whose entry for the top right corner steps right, into the next
\* row.
kMoveTableWrapping ==
  <<[kMoveTableNone EXCEPT ![BOARD_W].dirs[1] = D(1, <<1, 0, 0, 0>>)],
    kMoveTableBlack, kMoveTableGray>>

kMoveTable == <<kMoveTableNone, kMoveTableBlack, kMoveTableGray>>

\* ------------------------------------------------------------ game state

VARIABLES
  board,      \* Board: cell index y*BOARD_W+x -> [occupant, tile]
  to_move,    \* GameState::to_move_
  inventory,  \* GameState::inventory(p): [black, gray] per player
  last_move,  \* the move applied last (NoMove before the first one)
  ply         \* number of moves applied so far

gameVars == <<board, to_move, inventory, last_move, ply>>

\* GameSession (web server): the history and the last call made on it.
VARIABLES
  move_history,  \* GameSession::move_history
  call,          \* the last call: [op, arg]
  ret,           \* what that call returned
  calls          \* number of calls made so far

sessionVars == <<move_history, call, ret, calls>>

\* NTupleNetwork: the weight tables, and whether the process has died.
VARIABLES
  weights,  \* weights_: <<pattern, slot>> -> value, for the slots written
  crashed   \* a read or write outside a table has ended the process

netVars == <<weights, crashed>>

\* TCP game server: the client list, the sessions and the last line sent.
VARIABLES
  g_clients,  \* g_clients: the sessions in the list
  sessions,   \* per connection: its thread, ClientSession::role and ::active
  reply       \* the kind of line the last step sent ("none": no line)

serverVars == <<g_clients, sessions, reply>>

\* Parallel trainer: the result queue, the counters, the threads and the
\* opponent snapshot.
VARIABLES
  config,                \* TrainingConfig of the run
  queue_,                \* GameResultQueue::queue_
  done_,                 \* GameResultQueue::done_
  games_completed,       \* std::atomic<int> the workers claim from
  games_processed,       \* std::atomic<int> the updater counts in
  workers,               \* per worker thread: its position and locals
  updater,               \* the updater thread: its position and locals
  main_pc,               \* position of the thread that runs the trainer
  learner,               \* shared learner network: td_updates applied
  opponent_network_ptr,  \* the published opponent snapshot (0: nullptr)
  heap,                  \* the snapshot objects make_shared created
  learner_is_black,      \* std::atomic<bool>, the learner's colour
  turns_processed,       \* std::atomic<long long>, the td_updates counted
  opponent_state,        \* OpponentState: its type and its snapshot
  pushed,                \* history: per game number, the results pushed
  applied                \* history: per game number, the states td_updated

trainVars ==
  <<config, queue_, done_, games_completed, games_processed, workers, updater,
    main_pc, learner, opponent_network_ptr, heap, learner_is_black,
    turns_processed, opponent_state, pushed, applied>>

\* SharedNTupleNetwork: the mutex, the wrapped network and its callers.
VARIABLES
  mutex_,    \* SharedNTupleNetwork::mutex_: the thread holding it (-1: free)
  network_,  \* SharedNTupleNetwork::network_: the version of each half
  callers    \* per thread: the method it is in and how far it got

sharedVars == <<mutex_, network_, callers>>

\* MCTS::search: the tree under the root and the loop's position.
VARIABLES
  tree,    \* the nodes make_unique created: node 1 is the root
  iter,    \* the iterations done, i of the loop in search
  picked,  \* the node the last iteration simulated, and the value
  best     \* whether search has returned, and the move it returned

searchVars == <<tree, iter, picked, best>>

\* TCP game server: the status broadcast with the state.
VARIABLES
  g_status  \* g_status: "ongoing", "X_win" or "O_win"

statusVars == <<g_status>>

vars ==
  <<gameVars, sessionVars, netVars, serverVars, trainVars, sharedVars,
    searchVars, statusVars>>

\* struct Cell { occupant; tile }
Cell(o, t) == [occupant |-> o, tile |-> t]

\* struct TileInventory { black; gray }
TileInventory(b, g) == [black |-> b, gray |-> g]

\* GameState as a value: what legal_moves, is_win and is_loss read.
GameState(b, p, inv) == [board |-> b, to_move |-> p, inventory |-> inv]

State == GameState(board, to_move, inventory)

\* Board::at(x, y): the cell at linear index y*width + x.
At(b, x, y) == b[y * BOARD_W + x]

\* struct Move; the placement fields are meaningful only with place_tile.
Move(sx, sy, dx, dy) ==
  [sx |-> sx, sy |-> sy, dx |-> dx, dy |-> dy,
   place_tile |-> FALSE, tx |-> 0, ty |-> 0, tile |-> TileNone]

WithTile(base, x, y, t) ==
  [base EXCEPT !.place_tile = TRUE, !.tx = x, !.ty = y, !.tile = t]

NoMove == [sx |-> -1, sy |-> -1, dx |-> -1, dy |-> -1,
           place_tile |-> FALSE, tx |-> 0, ty |-> 0, tile |-> TileNone]

Opponent(p) == IF p = PlayerBlack THEN PlayerWhite ELSE PlayerBlack

\* ----------------------------------------------------------- Rules engine

\* Variants of the ray walk, each one slip away from it.

\* The walk stops at the first own piece (no jump).
RECURSIVE WalkRayNoJump(_, _, _, _, _, _, _)
WalkRayNoJump(b, p, x, y, dir, step, encountered_friend) ==
  IF step >= dir.step_count
    THEN {}
    ELSE
      LET target_index == y * BOARD_W + x + dir.rel_index[step + 1]
          ty == target_index \div BOARD_W
          tx == target_index % BOARD_W
      IN  IF At(b, tx, ty).occupant = PlayerNone
            THEN IF step = 0 THEN {Move(x, y, tx, ty)} ELSE {}
            ELSE {}

\* The walk steps over any piece, the opponent's too.
RECURSIVE WalkRayOverOpponent(_, _, _, _, _, _, _)
WalkRayOverOpponent(b, p, x, y, dir, step, encountered_friend) ==
  IF step >= dir.step_count
    THEN {}
    ELSE
      LET target_index == y * BOARD_W + x + dir.rel_index[step + 1]
          ty == target_index \div BOARD_W
          tx == target_index % BOARD_W
      IN  IF At(b, tx, ty).occupant = PlayerNone
            THEN IF ~encountered_friend
                   THEN IF step = 0 THEN {Move(x, y, tx, ty)} ELSE {}
                   ELSE {Move(x, y, tx, ty)}
            ELSE WalkRayOverOpponent(b, p, x, y, dir, step + 1, TRUE)

\* The walk ends on an opponent's piece by taking its cell.
RECURSIVE WalkRayCapture(_, _, _, _, _, _, _)
WalkRayCapture(b, p, x, y, dir, step, encountered_friend) ==
  IF step >= dir.step_count
    THEN {}
    ELSE
      LET target_index == y * BOARD_W + x + dir.rel_index[step + 1]
          ty == target_index \div BOARD_W
          tx == target_index % BOARD_W
      IN  IF At(b, tx, ty).occupant = PlayerNone
            THEN IF ~encountered_friend
                   THEN IF step = 0 THEN {Move(x, y, tx, ty)} ELSE {}
                   ELSE {Move(x, y, tx, ty)}
            ELSE IF At(b, tx, ty).occupant = p
                   THEN WalkRayCapture(b, p, x, y, dir, step + 1, TRUE)
                   ELSE {Move(x, y, tx, ty)}

\* The inner loop of legal_moves over one ray: the base moves (at most one)
\* found from step `step` on, having met a friend or not.
RECURSIVE WalkRay(_, _, _, _, _, _, _)
WalkRay(b, p, x, y, dir, step, encountered_friend) ==
  IF step >= dir.step_count
    THEN {}
    ELSE
      LET origin_index == y * BOARD_W + x
          target_index == origin_index + dir.rel_index[step + 1]
          ty == target_index \div BOARD_W
          tx == target_index % BOARD_W
          cell == At(b, tx, ty)
      IN  IF cell.occupant = PlayerNone
            THEN IF ~encountered_friend
                   THEN IF step = 0 THEN {Move(x, y, tx, ty)} ELSE {}
                   ELSE {Move(x, y, tx, ty)}
            ELSE IF cell.occupant = p
                   THEN WalkRay(b, p, x, y, dir, step + 1, TRUE)
                   ELSE {}

\* The base moves of the piece on (x, y): one walk per direction of the
\* table entry of the cell's tile.
PieceMoves(b, p, x, y) ==
  LET tile_index == At(b, x, y).tile
      origin_index == y * BOARD_W + x
      table_entry == kMoveTable[tile_index + 1][origin_index + 1]
  IN  UNION { IF table_entry.dirs[dir_idx + 1].step_count = 0
                THEN {}
                ELSE WalkRay(b, p, x, y, table_entry.dirs[dir_idx + 1], 0, FALSE)
              : dir_idx \in 0 .. table_entry.dir_count - 1 }

\* Every piece on the board is walked, whoever owns it.
BaseMovesAnyPiece(s) ==
  LET b == s.board
      p == s.to_move
  IN  UNION { IF At(b, x, y).occupant = PlayerNone THEN {} ELSE PieceMoves(b, p, x, y)
              : x \in 0 .. BOARD_W - 1, y \in 0 .. BOARD_H - 1 }

\* base_moves: the moves without tile placement, over the mover's pieces.
BaseMoves(s) ==
  LET b == s.board
      p == s.to_move
  IN  UNION { IF At(b, x, y).occupant # p THEN {} ELSE PieceMoves(b, p, x, y)
              : x \in 0 .. BOARD_W - 1, y \in 0 .. BOARD_H - 1 }

\* The placement loops test the occupant only.
PlacementCellsAnyTile(b) ==
  { c \in (0 .. BOARD_W - 1) \X (0 .. BOARD_H - 1) :
      At(b, c[1], c[2]).occupant = PlayerNone }

\* The cells the placement loops accept: no occupant and no tile, read on
\* the board as it is before the move.
PlacementCells(b) ==
  { c \in (0 .. BOARD_W - 1) \X (0 .. BOARD_H - 1) :
      At(b, c[1], c[2]).occupant = PlayerNone /\ At(b, c[1], c[2]).tile = TileNone }

\* The stock is not tested before a kind is offered.
VariantsNoStockTest(base, inv, cells) ==
  {base}
  \cup { WithTile(base, c[1], c[2], TileBlack) : c \in cells }
  \cup { WithTile(base, c[1], c[2], TileGray) : c \in cells }

\* The variants of one base move for a mover with stock inv: itself, and
\* one per accepted cell for each tile kind the mover still holds.
Variants(base, inv, cells) ==
  {base}
  \cup (IF inv.black > 0
          THEN { WithTile(base, c[1], c[2], TileBlack) : c \in cells }
          ELSE {})
  \cup (IF inv.gray > 0
          THEN { WithTile(base, c[1], c[2], TileGray) : c \in cells }
          ELSE {})

\* Rules::legal_moves(s, out): the contents of out on return.
LegalMoves(s) ==
  LET inv == s.inventory[s.to_move]
      cells == PlacementCells(s.board)
  IN  UNION { Variants(base, inv, cells) : base \in BaseMoves(s) }

\* The goal rows are swapped: each side's own back row.
IsWinOwnBackRow(s, p) ==
  LET target_row == IF p = PlayerBlack THEN 0 ELSE BOARD_H - 1
  IN  \E x \in 0 .. BOARD_W - 1 : At(s.board, x, target_row).occupant = p

\* Rules::is_win(s, p)
IsWin(s, p) ==
  LET target_row == IF p = PlayerBlack THEN BOARD_H - 1 ELSE 0
  IN  \E x \in 0 .. BOARD_W - 1 : At(s.board, x, target_row).occupant = p

\* Loss read as having no piece left, not as having no move.
IsLossNoPiece(s, p) ==
  \A x \in 0 .. BOARD_W - 1, y \in 0 .. BOARD_H - 1 : At(s.board, x, y).occupant # p

\* Rules::is_loss(s, p): p is not read.
IsLoss(s, p) == LegalMoves(s) = {}

\* ------------------------------------------------------------- GameState

\* GameState::reset(): Black on row 0, White on row BOARD_H-1, no tiles,
\* three black tiles and one gray tile each, Black to move.
InitialBlackTiles == 3
InitialGrayTiles == 1

ResetBoard ==
  [i \in 0 .. kBoardSize - 1 |->
     IF i \div BOARD_W = 0 THEN Cell(PlayerBlack, TileNone)
     ELSE IF i \div BOARD_W = BOARD_H - 1 THEN Cell(PlayerWhite, TileNone)
     ELSE Cell(PlayerNone, TileNone)]

ResetInventory ==
  [p \in Players |-> TileInventory(InitialBlackTiles, InitialGrayTiles)]

\* GameState::apply_move(m): move the occupant, clear the source, place the
\* tile and take it from the mover's stock, flip the side to move.
ApplyMove(s, m) ==
  LET p == s.to_move
      src == m.sy * BOARD_W + m.sx
      dst == m.dy * BOARD_W + m.dx
      moved == [s.board EXCEPT ![dst].occupant = s.board[src].occupant,
                               ![src].occupant = PlayerNone]
      tiled == IF m.place_tile
                 THEN [moved EXCEPT ![m.ty * BOARD_W + m.tx].tile = m.tile]
                 ELSE moved
      inv == IF m.place_tile
               THEN IF m.tile = TileBlack
                      THEN [s.inventory EXCEPT ![p].black = @ - 1]
                      ELSE [s.inventory EXCEPT ![p].gray = @ - 1]
               ELSE s.inventory
  IN  GameState(tiled, Opponent(p), inv)

\* ---------------------------------------------------------- specifications

\* Bounds of the model.
MaxPieces == 3
MaxTiles == 1
MaxPly == 2
MaxTargets == 2

\* The cells the fixtures put pieces on: column 0 from the top row to the
\* bottom row and the corner's diagonal neighbour; and the cells they put
\* tiles on.
SetupCells == {0, 5, 6, 10, 20}
TileCells == {0, 6}

\* The cleared board the rule tests start from.
ClearedBoard == [i \in 0 .. kBoardSize - 1 |-> Cell(PlayerNone, TileNone)]

\* Stocks as array_to_board accepts them: one side holds black tiles only,
\* the other its gray tile only.
SetupInventories ==
  { [p \in Players |->
       IF p = q THEN TileInventory(InitialBlackTiles, 0)
                ELSE TileInventory(0, InitialGrayTiles)]
    : q \in Players }

PieceCount(b) == Cardinality({ i \in DOMAIN b : b[i].occupant # PlayerNone })
TileCount(b) == Cardinality({ i \in DOMAIN b : b[i].tile # TileNone })

\* b.at(x, y).occupant = p, as the rule tests write a position.
SetOccupant(i, p) ==
  /\ PieceCount(board) < MaxPieces
  /\ board[i].occupant = PlayerNone
  /\ board' = [board EXCEPT ![i].occupant = p]
  /\ UNCHANGED <<to_move, inventory, last_move, ply>>
  /\ UNCHANGED <<sessionVars, netVars, serverVars, trainVars, sharedVars, searchVars, statusVars>>

\* b.at(x, y).tile = t
SetTile(i, t) ==
  /\ TileCount(board) < MaxTiles
  /\ board[i].tile = TileNone
  /\ board' = [board EXCEPT ![i].tile = t]
  /\ UNCHANGED <<to_move, inventory, last_move, ply>>
  /\ UNCHANGED <<sessionVars, netVars, serverVars, trainVars, sharedVars, searchVars, statusVars>>

\* The tile targets a player picks from: the first MaxTargets cells of the
\* middle row, so that the placements tried stay few.
TargetCells == { <<x, BOARD_H \div 2>> : x \in 0 .. MaxTargets - 1 }

\* The moves of legal_moves whose tile target, if any, is a target cell.
PickedMoves(s) ==
  LET inv == s.inventory[s.to_move]
      cells == PlacementCells(s.board) \cap TargetCells
  IN  UNION { Variants(base, inv, cells) : base \in BaseMoves(s) }

Play(m) ==
  LET s == ApplyMove(State, m)
  IN  /\ board' = s.board
      /\ to_move' = s.to_move
      /\ inventory' = s.inventory
      /\ last_move' = m
      /\ ply' = ply + 1

\* No call has been made on the session.
NoCall == [op |-> "none", arg |-> <<>>]

SessionIdle ==
  /\ move_history = <<>>
  /\ call = NoCall
  /\ ret = TRUE
  /\ calls = 0

\* NTupleNetwork::NTupleNetwork: every slot holds the initial weight.
EmptyWeights == [k \in {} |-> <<0, 1>>]

\* The connections the server may hold at once.
MaxClients == 3
Clients == 1 .. MaxClients

\* struct ClientSession { role{"spectator"}; active{true} } and the thread
\* serving it; no session before accept() returns the connection.
ClientSession(thread, role, active) ==
  [thread |-> thread, role |-> role, active |-> active]

NoSession == ClientSession("none", "spectator", FALSE)

NoClients ==
  /\ g_clients = {}
  /\ sessions = [c \in Clients |-> NoSession]
  /\ reply = "none"

\* The worker threads of one run.
NumWorkers == 2

\* config.num_games of the runs explored, and the game numbers below it.
TargetGames == 2
GameIds == 0 .. TargetGames - 1
Workers == 1 .. NumWorkers

\* struct GameResult { states; players; winner; num_moves; learner_was_black }:
\* a recorded state is its index in players. id (the claimed game number) and
\* seq (how many results were pushed before this one) are history.
GameResult(id, players, winner, learner_was_black, seq) ==
  [id |-> id, players |-> players, winner |-> winner,
   learner_was_black |-> learner_was_black, seq |-> seq]

NoResult == GameResult(-1, <<>>, PlayerNone, TRUE, -1)

\* A thread that has not been started, with its locals unset. reads is
\* history: the snapshot weights each opponent move of the game in progress
\* was chosen with. played is history: per game of this thread, whether its
\* moves were chosen with the learner as Black.
IdleWorker ==
  [pc |-> "idle", game_num |-> -1, opponent_ptr |-> 0, is_black |-> TRUE,
   to_move |-> PlayerNone, result |-> NoResult, reads |-> <<>>,
   opponent_network |-> 0, move_count |-> 0, played |-> <<>>]

IdleUpdater ==
  [pc |-> "idle", result |-> NoResult, i |-> 0, current_game |-> 0,
   initial_opponent |-> 0, last_swap_game |-> 0,
   games_since_last_promotion |-> 0, recent_wins |-> <<>>,
   last_snapshot_game |-> 0, current_lr |-> <<0, 1>>, target |-> 0]

\* struct TrainingConfig, the fields the pipeline reads.
TrainingConfig(num_games, initial, swap, window, save) ==
  [num_games |-> num_games, initial_training_games |-> initial,
   swap_interval |-> swap, evaluation_window |-> window,
   save_interval |-> save]

NoConfig == TrainingConfig(0, 0, 1, 1, 1)

\* The threads that call the shared network: the workers and the updater.
Updater == 0
Threads == Workers \cup {Updater}

\* No thread is in a method of the shared network.
NoCaller == [method |-> "none", at |-> "out", seen |-> <<>>]

\* SharedNTupleNetwork as constructed: the mutex free, the network whole.
SharedIdle ==
  /\ mutex_ = -1
  /\ network_ = <<0, 0>>
  /\ callers = [t \in Threads |-> NoCaller]

\* struct OpponentState { type; snapshot } of the trainer with a turn
\* budget; the snapshot is the learner's td_update count when it was taken.
OpponentState(type, snapshot) == [type |-> type, snapshot |-> snapshot]

\* The objects of train_network_selfplay as constructed, no thread started.
TrainingAt(c) ==
  /\ config = c
  /\ queue_ = <<>>
  /\ done_ = FALSE
  /\ games_completed = 0
  /\ games_processed = 0
  /\ workers = [w \in Workers |-> IdleWorker]
  /\ updater = IdleUpdater
  /\ main_pc = "start"
  /\ learner = 0
  /\ opponent_network_ptr = 0
  /\ heap = <<>>
  /\ learner_is_black = TRUE
  /\ turns_processed = 0
  /\ opponent_state = OpponentState("self", 0)
  /\ pushed = [id \in GameIds |-> 0]
  /\ applied = [id \in GameIds |-> <<>>]
  /\ SharedIdle

NoTraining == TrainingAt(NoConfig)

\* No node was simulated.
NoPick == [node |-> 0, value |-> <<0, 1>>]

\* No search is running, and the server's game is on.
NoSearch ==
  /\ tree = <<>>
  /\ iter = 0
  /\ picked = NoPick
  /\ best = [returned |-> FALSE, move |-> NoMove]
  /\ g_status = "ongoing"

FreshNetwork ==
  /\ weights = EmptyWeights
  /\ crashed = FALSE

\* A caller applies one of the moves legal_moves returned.
GameStep ==
  /\ ply < MaxPly
  /\ \E m \in PickedMoves(State) : Play(m)
  /\ UNCHANGED <<sessionVars, netVars, serverVars, trainVars, sharedVars, searchVars, statusVars>>

\* The positions of the rule tests: a cleared board, a side to move and
\* stocks, then pieces and tiles written cell by cell.
Init ==
  /\ board = ClearedBoard
  /\ to_move \in Players
  /\ inventory \in SetupInventories
  /\ last_move = NoMove
  /\ ply = 0
  /\ SessionIdle
  /\ FreshNetwork
  /\ NoClients
  /\ NoTraining
  /\ NoSearch

Next ==
  \/ \E i \in SetupCells, p \in Players : SetOccupant(i, p)
  \/ \E i \in TileCells, t \in {TileBlack, TileGray} : SetTile(i, t)

Spec == Init /\ [][Next]_vars

\* A game from the initial position.
InitGame ==
  /\ board = ResetBoard
  /\ to_move = PlayerBlack
  /\ inventory = ResetInventory
  /\ last_move = NoMove
  /\ ply = 0
  /\ SessionIdle
  /\ FreshNetwork
  /\ NoClients
  /\ NoTraining
  /\ NoSearch

NextGame == GameStep

SpecGame == InitGame /\ [][NextGame]_vars

\* ------------------------------------------------------------- properties

Idx(x, y) == y * BOARD_W + x

Src(m) == Idx(m.sx, m.sy)
Dst(m) == Idx(m.dx, m.dy)
Tgt(m) == Idx(m.tx, m.ty)

Cells == 0 .. kBoardSize - 1

\* The rays of the piece on cell o: the directions of the table entry of
\* the tile it stands on; cell k of ray r is o + r.rel_index[k].
RaysOf(b, o) ==
  LET e == kMoveTable[b[o].tile + 1][o + 1]
  IN  { e.dirs[d] : d \in 1 .. e.dir_count }

RayCell(o, r, k) == o + r.rel_index[k]

\* The (source, destination) pairs of the moves without placement.
BaseOffered(s) == { <<Src(m), Dst(m)>> : m \in { n \in LegalMoves(s) : ~n.place_tile } }

\* C1: for every piece of the side to move and every cell on one of its
\* rays: an empty cell is a base-move destination exactly when no cell
\* before it on the ray is empty and it is the ray's first step or every
\* cell before it holds a piece of the mover; a cell holding a piece of the
\* mover is never a destination.
C1_JumpRule ==
  LET offered == BaseOffered(State)
  IN  /\ \A o \in Cells :
           board[o].occupant = to_move =>
             \A r \in RaysOf(board, o) :
               \A k \in 1 .. r.step_count :
                 LET c == RayCell(o, r, k)
                     before == { RayCell(o, r, j) : j \in 1 .. k - 1 }
                 IN  /\ board[c].occupant = PlayerNone =>
                          (<<o, c>> \in offered <=>
                             /\ \A q \in before : board[q].occupant # PlayerNone
                             /\ \/ k = 1
                                \/ \A q \in before : board[q].occupant = to_move)
                     /\ board[c].occupant = to_move => <<o, c>> \notin offered
      /\ \A m \in LegalMoves(State) : board[Dst(m)].occupant # to_move

\* A jump over two own pieces is offered.
C1_Witness ==
  \E m \in LegalMoves(State) :
    /\ ~m.place_tile
    /\ \E r \in RaysOf(board, Src(m)) :
         /\ r.step_count >= 3
         /\ Dst(m) = RayCell(Src(m), r, 3)
         /\ board[RayCell(Src(m), r, 1)].occupant = to_move
         /\ board[RayCell(Src(m), r, 2)].occupant = to_move

\* C2: no legal move ends on a cell held by the opponent, and on the ray
\* from a legal move's source to its destination no cell before the
\* destination holds a piece of the opponent.
C2_OpponentBlocks ==
  \A sd \in { <<Src(m), Dst(m)>> : m \in LegalMoves(State) } :
    /\ board[sd[2]].occupant # Opponent(to_move)
    /\ \A r \in RaysOf(board, sd[1]) :
         \A k \in 1 .. r.step_count :
           sd[2] = RayCell(sd[1], r, k) =>
             \A j \in 1 .. k - 1 :
               board[RayCell(sd[1], r, j)].occupant # Opponent(to_move)

\* An opponent stands on a ray of the mover behind one of the mover's own
\* pieces, with an empty cell beyond it.
C2_Witness ==
  \E o \in Cells :
    /\ board[o].occupant = to_move
    /\ \E r \in RaysOf(board, o) :
         /\ r.step_count >= 3
         /\ board[RayCell(o, r, 1)].occupant = to_move
         /\ board[RayCell(o, r, 2)].occupant = Opponent(to_move)
         /\ board[RayCell(o, r, 3)].occupant = PlayerNone

InventoryInRange(inv) ==
  \A p \in Players :
    /\ inv[p].black \in 0 .. InitialBlackTiles
    /\ inv[p].gray \in 0 .. InitialGrayTiles

CellCode(c) == c.occupant * 3 + c.tile

StateInRange(s) ==
  /\ InventoryInRange(s.inventory)
  /\ \A i \in Cells : CellCode(s.board[i]) \in 0 .. 8

\* C3: in every state reached from the initial position by legal moves,
\* and in the state every further move of the game leads to, each black
\* count is within 0..3, each gray count within 0..1 and each cell code
\* within 0..8.
C3_StatesInRange ==
  /\ StateInRange(State)
  /\ \A m \in PickedMoves(State) : StateInRange(ApplyMove(State, m))

\* Black has spent its gray tile and is to move again.
C3_Witness ==
  /\ ply >= 2
  /\ to_move = PlayerBlack
  /\ inventory[PlayerBlack].gray = 0
  /\ inventory[PlayerBlack].black > 0
  /\ \E m \in LegalMoves(State) : m.place_tile

\* C4: no legal move places its tile on its own destination.
C4_NoTileOnDestination ==
  \A m \in LegalMoves(State) : m.place_tile => Tgt(m) # Dst(m)

\* C5: for every base move and every tile kind the mover holds, the variant
\* placing that tile on the origin cell is a legal move when the origin
\* carries no tile.
C5_OriginPlacementOffered ==
  \A m \in LegalMoves(State) :
    (~m.place_tile /\ board[Src(m)].tile = TileNone) =>
      /\ inventory[to_move].black > 0 =>
           WithTile(m, m.sx, m.sy, TileBlack) \in LegalMoves(State)
      /\ inventory[to_move].gray > 0 =>
           WithTile(m, m.sx, m.sy, TileGray) \in LegalMoves(State)

Stock(inv, t) == IF t = TileBlack THEN inv.black ELSE inv.gray

\* C6: a legal move that places a tile places a Black or Gray tile of which
\* the mover holds at least one, on a cell that carries no tile and no
\* piece.
C6_PlacementNeedsStockAndFreeCell ==
  \A m \in LegalMoves(State) :
    m.place_tile =>
      /\ m.tile \in {TileBlack, TileGray}
      /\ Stock(inventory[to_move], m.tile) > 0
      /\ board[Tgt(m)].tile = TileNone
      /\ board[Tgt(m)].occupant = PlayerNone

\* The mover holds one tile kind and not the other, a tile lies on an empty
\* cell, and placements are offered.
C6_Witness ==
  /\ inventory[to_move].black = 0
  /\ inventory[to_move].gray > 0
  /\ \E i \in Cells : board[i].occupant = PlayerNone /\ board[i].tile # TileNone
  /\ \E m \in LegalMoves(State) : m.place_tile

\* C7: applying a legal move m of mover p moves p's piece from the source
\* to the destination, puts m's tile on m's target and takes exactly one
\* such tile from p's stock when m places a tile, flips the side to move,
\* and leaves every other occupant, tile and count as it was; no count
\* grows.
MoveEffect(s, m, t) ==
  LET p == s.to_move
  IN  /\ s.board[Src(m)].occupant = p
      /\ \A i \in Cells :
           /\ t.board[i].occupant =
                IF i = Dst(m) THEN p
                ELSE IF i = Src(m) THEN PlayerNone
                ELSE s.board[i].occupant
           /\ t.board[i].tile =
                IF m.place_tile /\ i = Tgt(m) THEN m.tile ELSE s.board[i].tile
      /\ \A q \in Players :
           /\ t.inventory[q].black =
                IF q = p /\ m.place_tile /\ m.tile = TileBlack
                  THEN s.inventory[q].black - 1 ELSE s.inventory[q].black
           /\ t.inventory[q].gray =
                IF q = p /\ m.place_tile /\ m.tile = TileGray
                  THEN s.inventory[q].gray - 1 ELSE s.inventory[q].gray
           /\ t.inventory[q].black <= s.inventory[q].black
           /\ t.inventory[q].gray <= s.inventory[q].gray
      /\ t.to_move = Opponent(p)

C7_MoveEffect ==
  \A m \in LegalMoves(State) : MoveEffect(State, m, ApplyMove(State, m))

\* A legal move places the mover's last gray tile while pieces of both
\* sides and a tile are on the board.
C7_Witness ==
  /\ \E i \in Cells : board[i].occupant = Opponent(to_move)
  /\ \E i \in Cells : board[i].tile # TileNone
  /\ \E m \in LegalMoves(State) :
       /\ m.place_tile
       /\ m.tile = TileGray
       /\ ApplyMove(State, m).inventory[to_move].gray = 0

GoalRowCells(p) == IF p = PlayerBlack THEN 20 .. 24 ELSE 0 .. 4

\* C8: is_win(S, p) holds exactly when a cell of p's goal row, y = 4 for
\* Black and y = 0 for White, holds a piece of p.
C8_WinIffPieceOnGoalRow ==
  \A p \in Players :
    IsWin(State, p) <=> \E i \in GoalRowCells(p) : board[i].occupant = p

\* Black stands on row 4 and White does not stand on row 0, with pieces of
\* both sides on the board.
C8_Witness ==
  /\ IsWin(State, PlayerBlack)
  /\ ~IsWin(State, PlayerWhite)
  /\ \E i \in Cells : board[i].occupant = PlayerWhite

\* C9: for the side to move, is_loss holds exactly when legal_moves returns
\* no move.
C9_LossIffNoLegalMove ==
  IsLoss(State, to_move) <=> LegalMoves(State) = {}

\* The side to move has a piece on the board and no legal move.
C9_Witness ==
  /\ IsLoss(State, to_move)
  /\ \E i \in Cells : board[i].occupant = to_move

\* C10 (as stated): where is_win holds for p, no legal move leads to a
\* state where is_win holds for the opponent of p.
C10_WinIsTerminal ==
  \A p \in Players :
    IsWin(State, p) =>
      \A m \in LegalMoves(State) : ~IsWin(ApplyMove(State, m), Opponent(p))

\* C10 (amended): a legal move never changes whether the side that is not
\* moving has won, so the side to move cannot give its opponent the win.
C10_MoveKeepsOpponentResult ==
  \A m \in LegalMoves(State) :
    IsWin(ApplyMove(State, m), Opponent(to_move)) <=> IsWin(State, Opponent(to_move))

\* The side to move has won, its opponent has not, and it has legal moves.
C10_Witness ==
  /\ IsWin(State, to_move)
  /\ ~IsWin(State, Opponent(to_move))
  /\ \E i \in Cells : board[i].occupant = Opponent(to_move)
  /\ LegalMoves(State) # {}

\* ------------------------------------------------------------ GameSession

MaxCalls == 2

\* The test `legal_move == move` of GameSession::apply_move: source,
\* destination, tile kind and tile target (tile_x, tile_y) are compared,
\* the placement flag is not.
SessionMatches(legal_move, move) ==
  /\ legal_move.sx = move.sx /\ legal_move.sy = move.sy
  /\ legal_move.dx = move.dx /\ legal_move.dy = move.dy
  /\ legal_move.tile = move.tile
  /\ legal_move.tx = move.tx /\ legal_move.ty = move.ty

\* GameSession::apply_move(move)
SessionApplyMove(move) ==
  LET is_legal == \E legal_move \in LegalMoves(State) :
                    SessionMatches(legal_move, move)
  IN  /\ calls < MaxCalls
      /\ calls' = calls + 1
      /\ call' = [op |-> "apply_move", arg |-> move]
      /\ UNCHANGED <<netVars, serverVars, trainVars, sharedVars, searchVars, statusVars>>
      /\ IF ~is_legal
           THEN /\ ret' = FALSE
                /\ UNCHANGED <<gameVars, move_history>>
           ELSE /\ Play(move)
                /\ move_history' = Append(move_history, move)
                /\ ret' = TRUE

\* The moves a client submits, all for pieces of the first file: moves of
\* the legal list; the same with the placement flag left unset, as the JSON
\* endpoint builds them; moves that stay on their cell; placements on the
\* moved piece's origin.
SubmittedMoves(s) ==
  LET legal == { m \in PickedMoves(s) : m.sx = 0 }
  IN  legal
      \cup { [m EXCEPT !.place_tile = FALSE] : m \in legal }
      \cup { [m EXCEPT !.dx = m.sx, !.dy = m.sy] : m \in legal }
      \cup { [m EXCEPT !.tx = m.sx, !.ty = m.sy] :
               m \in { l \in legal : l.place_tile } }

\* GameSession::decode_cell(value, cell) for a value in range
DecodeCell(value) == Cell(value \div 3, value % 3)

\* GameSession::board_to_array()
BoardToArray(s) ==
  [i \in 1 .. 29 |->
     IF i <= 25 THEN CellCode(s.board[i - 1])
     ELSE IF i = 26 THEN s.inventory[PlayerBlack].black
     ELSE IF i = 27 THEN s.inventory[PlayerBlack].gray
     ELSE IF i = 28 THEN s.inventory[PlayerWhite].black
     ELSE s.inventory[PlayerWhite].gray]

\* The count checks of array_to_board with the gray limit taken from the
\* black one.
CountErrorGrayAsBlack(array) ==
  \/ array[26] < 0 \/ array[26] > 3
  \/ array[27] < 0 \/ array[27] > 3
  \/ array[28] < 0 \/ array[28] > 3
  \/ array[29] < 0 \/ array[29] > 3

\* array_to_board: the checks on array[25..28] (1-based here: 26..29).
CountError(array) ==
  \/ array[26] < 0 \/ array[26] > 3
  \/ array[27] < 0 \/ array[27] > 1
  \/ array[28] < 0 \/ array[28] > 3
  \/ array[29] < 0 \/ array[29] > 1

\* array_to_board: the checks made before anything is written.
ArrayError(array) ==
  \/ Len(array) # 29
  \/ \E i \in 1 .. 25 : array[i] < 0 \/ array[i] > 8
  \/ CountError(array)

\* GameSession::array_to_board(array, err_msg)
ArrayToBoard(array) ==
  /\ calls < MaxCalls
  /\ calls' = calls + 1
  /\ call' = [op |-> "array_to_board", arg |-> array]
  /\ UNCHANGED <<netVars, serverVars, trainVars, sharedVars, searchVars, statusVars>>
  /\ IF ArrayError(array)
       THEN /\ ret' = FALSE
            /\ UNCHANGED <<gameVars, move_history>>
       ELSE /\ board' = [i \in 0 .. kBoardSize - 1 |-> DecodeCell(array[i + 1])]
            /\ inventory' =
                 [q \in Players |->
                    IF q = PlayerBlack THEN TileInventory(array[26], array[27])
                                       ELSE TileInventory(array[28], array[29])]
            /\ ret' = TRUE
            /\ UNCHANGED <<to_move, last_move, ply, move_history>>

\* The arrays a client sends: the encoding of the state, the same with one
\* element replaced, one element short, one element long, and empty.
ArrayProbes == {1, 26, 27}
ProbeValues == {-1, 2, 4, 9}

SentArrays(s) ==
  LET a == BoardToArray(s)
  IN  {a, SubSeq(a, 1, 28), Append(a, 0), <<>>}
      \cup { [a EXCEPT ![i] = v] : i \in ArrayProbes, v \in ProbeValues }

\* GameSession::GameSession: state.reset(), empty history.
InitSession ==
  /\ board = ResetBoard
  /\ to_move = PlayerBlack
  /\ inventory = ResetInventory
  /\ last_move = NoMove
  /\ ply = 0
  /\ SessionIdle
  /\ FreshNetwork
  /\ NoClients
  /\ NoTraining
  /\ NoSearch

NextSession ==
  \/ \E move \in SubmittedMoves(State) : SessionApplyMove(move)
  \/ \E array \in SentArrays(State) : ArrayToBoard(array)

SpecSession == InitSession /\ [][NextSession]_vars

\* C11: a submitted move that is not an element of legal_moves(state) is
\* answered with an error and changes neither the game state nor the move
\* history, so only elements of the legal list are applied.
C11_IllegalMoveRejected ==
  [][ (calls' = calls + 1 /\ call'.op = "apply_move"
         /\ call'.arg \notin LegalMoves(State))
      => (ret' = FALSE
          /\ UNCHANGED <<board, to_move, inventory, move_history>>) ]_vars

\* C19: array_to_board answers an array whose length is not 29, or with a
\* cell outside 0..8, a black count outside 0..3 or a gray count outside
\* 0..1, with an error and leaves board and inventories as they were.
ArrayOutOfRange(a) ==
  \/ Len(a) # 29
  \/ \E i \in 1 .. 25 : a[i] \notin 0 .. 8
  \/ a[26] \notin 0 .. 3 \/ a[28] \notin 0 .. 3
  \/ a[27] \notin 0 .. 1 \/ a[29] \notin 0 .. 1

C19_BadArrayRejected ==
  [][ (calls' = calls + 1 /\ call'.op = "array_to_board"
         /\ ArrayOutOfRange(call'.arg))
      => (ret' = FALSE /\ UNCHANGED <<board, inventory>>) ]_vars

\* A full-length array with a gray count of 2 has been rejected after a
\* move was applied.
C19_Witness ==
  /\ call.op = "array_to_board"
  /\ ret = FALSE
  /\ Len(call.arg) = 29
  /\ call.arg[27] = 2
  /\ move_history # <<>>

\* ------------------------------------------------------------- symmetry

\* SymmetryOps::transform_board(b, FlipH): (x, y) -> (W-1-x, y)
FlipH(b) ==
  [i \in 0 .. kBoardSize - 1 |->
     b[(i \div BOARD_W) * BOARD_W + (BOARD_W - 1 - (i % BOARD_W))]]

\* The board linearised as the sequence of its cell codes, and the
\* lexicographic order on such sequences.
RECURSIVE LexLess(_, _, _)
LexLess(a, b, i) ==
  IF i = kBoardSize THEN FALSE
  ELSE IF CellCode(a[i]) # CellCode(b[i]) THEN CellCode(a[i]) < CellCode(b[i])
  ELSE LexLess(a, b, i + 1)

\* SymmetryOps::get_canonical_symmetry(b): the flip when it gives the
\* smaller board, the identity otherwise and on a tie.
GetCanonicalSymmetry(b) ==
  IF LexLess(FlipH(b), b, 0) THEN "FlipH" ELSE "Identity"

\* SymmetryOps::transform_board(b, sym)
TransformBoard(b, sym) == IF sym = "FlipH" THEN FlipH(b) ELSE b

Canonical(b) == TransformBoard(b, GetCanonicalSymmetry(b))

\* ------------------------------------------------------------ NTuple index

\* NTupleNetwork::init_tuples: the twelve patterns of nine cells.
base_patterns ==
  << <<0, 1, 2, 3, 4, 5, 6, 7, 8>>,
     <<5, 6, 7, 8, 9, 10, 11, 12, 13>>,
     <<10, 11, 12, 13, 14, 15, 16, 17, 18>>,
     <<15, 16, 17, 18, 19, 20, 21, 22, 23>>,
     <<0, 1, 2, 5, 6, 7, 10, 11, 12>>,
     <<1, 2, 3, 6, 7, 8, 11, 12, 13>>,
     <<5, 6, 7, 10, 11, 12, 15, 16, 17>>,
     <<6, 7, 8, 11, 12, 13, 16, 17, 18>>,
     <<10, 11, 12, 15, 16, 17, 20, 21, 22>>,
     <<11, 12, 13, 16, 17, 18, 21, 22, 23>>,
     <<0, 1, 2, 3, 4, 5, 10, 15, 20>>,
     <<0, 1, 2, 3, 4, 7, 12, 17, 22>> >>

NumTuples == Len(base_patterns)

\* A long long value v, kept as two limbs: v = hi * 2^31 + lo with
\* 0 <= lo < 2^31, so that values beyond a 32-bit int stay exact.
Two25 == 33554432
Two30 == 1073741824

LongLong(hi, lo) == [hi |-> hi, lo |-> lo]

\* idx * 64 + t for 0 <= idx < 2^31 and 0 <= t < 64, as a long long.
Times64Plus(idx, t) == LongLong(idx \div Two25, (idx % Two25) * 64 + t)

\* NTuple::encode_cell(c)
encode_cell(c) == c.occupant * 3 + c.tile

\* The inventory code with the gray count weighted 2, so that (2, 0) and
\* (0, 1) share a code.
encode_tile_inventory_narrow(black_tiles, gray_tiles) ==
  black_tiles + gray_tiles * 2

\* NTuple::encode_tile_inventory(black_tiles, gray_tiles)
encode_tile_inventory(black_tiles, gray_tiles) == black_tiles + gray_tiles * 4

\* The loop of to_index over the pattern's cells: idx = idx * 9 + code,
\* a cell beyond the board counting as 0.
RECURSIVE PatternIdx(_, _, _, _, _, _)
PatternIdx(b, cell_indices, offset_x, offset_y, i, idx) ==
  IF i > Len(cell_indices) THEN idx
  ELSE LET x == offset_x + (cell_indices[i] % 5)
           y == offset_y + (cell_indices[i] \div 5)
           code == IF x < 0 \/ x >= BOARD_W \/ y < 0 \/ y >= BOARD_H
                     THEN 0 ELSE encode_cell(At(b, x, y))
       IN  PatternIdx(b, cell_indices, offset_x, offset_y, i + 1, idx * 9 + code)

\* NTuple::to_index(state, offset_x, offset_y) of the pattern cell_indices.
to_index(cell_indices, state, offset_x, offset_y) ==
  LET idx == PatternIdx(state.board, cell_indices, offset_x, offset_y, 1, 0)
      black_inv == state.inventory[PlayerBlack]
      white_inv == state.inventory[PlayerWhite]
      black_tile_idx == encode_tile_inventory(black_inv.black, black_inv.gray)
      white_tile_idx == encode_tile_inventory(white_inv.black, white_inv.gray)
  IN  Times64Plus(idx, black_tile_idx * 8 + white_tile_idx)

\* NTuple::num_states() of a nine-cell pattern: 9^9 * 64 = 11 * 2^31 +
\* 1172591168.
num_states == LongLong(11, 1172591168)

LongLongLess(a, b) == a.hi < b.hi \/ (a.hi = b.hi /\ a.lo < b.lo)

\* C15: for each pattern, to_index is idx*64 + T with idx the base-9 number
\* of the nine cell codes and T = 8*(Black's black + 4*gray) + (White's
\* black + 4*gray); it lies in 0 .. 9^9*64 - 1, determines T and idx, and
\* is the same for two states that agree on the pattern's cells and on both
\* inventories.
Base9(b, cells) ==
  LET code(k) == b[cells[k]].occupant * 3 + b[cells[k]].tile
  IN  code(9) + 9 * (code(8) + 9 * (code(7) + 9 * (code(6) + 9 * (code(5)
        + 9 * (code(4) + 9 * (code(3) + 9 * (code(2) + 9 * code(1))))))))

InventoryT(inv) ==
  8 * (inv[PlayerBlack].black + 4 * inv[PlayerBlack].gray)
    + (inv[PlayerWhite].black + 4 * inv[PlayerWhite].gray)

\* The quotient and the remainder by 64 of a long long.
Quot64(v) == v.hi * Two25 + (v.lo \div 64)
Rem64(v) == v.lo % 64

\* Cells off the pattern, among a corner, the centre and the far corner.
OtherCells(cells) == {0, 12, 24} \ { cells[k] : k \in 1 .. Len(cells) }

C15_IndexFormula ==
  \A i \in 1 .. NumTuples :
    LET cells == base_patterns[i]
        v == to_index(cells, State, 0, 0)
    IN  /\ v.lo \in 0 .. (Two30 - 1) + Two30
        /\ v.hi >= 0
        /\ LongLongLess(v, num_states)
        /\ Quot64(v) = Base9(board, cells)
        /\ Rem64(v) = InventoryT(inventory)
        /\ \A j \in OtherCells(cells) :
             \A c \in {Cell(PlayerNone, TileNone), Cell(PlayerWhite, TileGray)} :
               to_index(cells, GameState([board EXCEPT ![j] = c],
                                         to_move, inventory), 0, 0) = v
        /\ to_index(cells, GameState(board, Opponent(to_move), inventory),
                    0, 0) = v

\* A pattern holds pieces of both sides and a tile, and its index is beyond
\* the range of a 32-bit int.
C15_Witness ==
  \E i \in 1 .. NumTuples :
    LET cells == base_patterns[i]
        on == { board[cells[k]] : k \in 1 .. Len(cells) }
    IN  /\ \E c \in on : c.occupant = PlayerBlack
        /\ \E c \in on : c.occupant = PlayerWhite
        /\ \E c \in on : c.tile # TileNone
        /\ to_index(cells, State, 0, 0).hi > 0

\* ---------------------------------------------------------- NTupleNetwork

\* A float value, kept exact as a reduced fraction <<numerator,
\* denominator>> with a positive denominator.
RECURSIVE GCD(_, _)
GCD(m, n) == IF n = 0 THEN m ELSE GCD(n, m % n)

Abs(n) == IF n < 0 THEN -n ELSE n

Rat(num, den) ==
  LET c == GCD(Abs(num), den) IN <<num \div c, den \div c>>

Zero == <<0, 1>>

RNeg(a) == <<-a[1], a[2]>>

RAdd(a, b) ==
  LET l == (a[2] \div GCD(a[2], b[2])) * b[2]
  IN  Rat(a[1] * (l \div a[2]) + b[1] * (l \div b[2]), l)

RSub(a, b) == RAdd(a, RNeg(b))

RMul(a, b) ==
  LET g1 == GCD(Abs(a[1]), b[2])
      g2 == GCD(Abs(b[1]), a[2])
  IN  Rat((a[1] \div g1) * (b[1] \div g2), (a[2] \div g2) * (b[2] \div g1))

RAbs(a) == <<Abs(a[1]), a[2]>>

RLess(a, b) == RSub(a, b)[1] < 0

\* The constructor's fill value, 0.5f / tuples_.size().
initial_weight == Rat(1, 2 * NumTuples)

\* weights_[i][slot] for a slot inside the table.
Weight(w, i, slot) ==
  IF <<i, slot>> \in DOMAIN w THEN w[<<i, slot>>] ELSE initial_weight

\* `int idx = tuple.to_index(...)`: the long long narrowed to a 32-bit int,
\* which keeps the low 32 bits and reads bit 31 as the sign.
ToInt(v) == IF v.hi % 2 = 0 THEN v.lo ELSE (v.lo - Two30) - Two30


\* The temporary state of evaluate and td_update: the canonical board with
\* the same inventories and side to move.
CanonicalState(state) == [state EXCEPT !.board = Canonical(state.board)]

\* The int idx that evaluate and td_update compute for pattern i.
SlotOf(state, i) ==
  ToInt(to_index(base_patterns[i], CanonicalState(state), 0, 0))

\* weights[idx] is inside the table: the vector holds num_states() > 2^31
\* floats, so every non-negative int is, and no negative one.
InTable(slot) == slot >= 0

ReadsOutside(state) == \E i \in 1 .. NumTuples : ~InTable(SlotOf(state, i))

\* No value: the call read outside its tables and did not return.
Crash == <<0, 0>>

\* What a read outside the tables may do: find some float, or end the
\* process.
StrayReads == {Zero, Rat(1, 1), Crash}

StraysOf(state) == IF ReadsOutside(state) THEN StrayReads ELSE {Zero}

\* The twelve values of idx for a state, in catalogue order.
Slots(state) ==
  LET c == CanonicalState(state)
  IN  << ToInt(to_index(base_patterns[1], c, 0, 0)),
         ToInt(to_index(base_patterns[2], c, 0, 0)),
         ToInt(to_index(base_patterns[3], c, 0, 0)),
         ToInt(to_index(base_patterns[4], c, 0, 0)),
         ToInt(to_index(base_patterns[5], c, 0, 0)),
         ToInt(to_index(base_patterns[6], c, 0, 0)),
         ToInt(to_index(base_patterns[7], c, 0, 0)),
         ToInt(to_index(base_patterns[8], c, 0, 0)),
         ToInt(to_index(base_patterns[9], c, 0, 0)),
         ToInt(to_index(base_patterns[10], c, 0, 0)),
         ToInt(to_index(base_patterns[11], c, 0, 0)),
         ToInt(to_index(base_patterns[12], c, 0, 0)) >>

\* The weight evaluate and td_update read for pattern i, a read outside
\* the table giving g.
ReadWeight(w, slots, g, i) ==
  IF InTable(slots[i]) THEN Weight(w, i, slots[i]) ELSE g

\* `value += weights[idx]` over patterns i .. NumTuples, from value.
RECURSIVE SumWeights(_, _, _, _, _)
SumWeights(w, slots, g, i, value) ==
  IF i > NumTuples \/ value = Crash THEN value
  ELSE LET read == ReadWeight(w, slots, g, i)
       IN  SumWeights(w, slots, g, i + 1,
                      IF read = Crash THEN Crash ELSE RAdd(value, read))

\* The value evaluate returns for the side to move p, from the slots.
EvaluateSlots(w, slots, p, g) ==
  LET value == SumWeights(w, slots, g, 1, Zero)
  IN  IF value = Crash THEN Crash
      ELSE IF p = PlayerWhite THEN RNeg(value) ELSE value

\* NTupleNetwork::evaluate(state) when its stray reads, if any, give g.
Evaluate(w, state, g) == EvaluateSlots(w, Slots(state), state.to_move, g)

\* Every result a call of evaluate(state) can have.
EvaluateOutcomes(w, state) ==
  LET slots == Slots(state)
      strays == IF \E i \in 1 .. NumTuples : ~InTable(slots[i])
                  THEN StrayReads ELSE {Zero}
  IN  { EvaluateSlots(w, slots, state.to_move, g) : g \in strays }

\* NTupleNetwork::td_update(state, target, learning_rate) when its stray
\* reads give g and its stray writes land outside every table.
TdUpdate(w, state, target, learning_rate, g) ==
  LET raw_value == SumWeights(w, Slots(state), g, 1, Zero)
      current_value == IF state.to_move = PlayerWhite
                         THEN RNeg(raw_value) ELSE raw_value
      error0 == RSub(target, current_value)
      error == IF state.to_move = PlayerWhite THEN RNeg(error0) ELSE error0
      normalized_lr == RMul(learning_rate, Rat(1, NumTuples))
      written == { <<i, SlotOf(state, i)>> : i \in 1 .. NumTuples }
      inside == { k \in written : InTable(k[2]) }
  IN  [k \in DOMAIN w \cup inside |->
         IF k \in inside
           THEN RAdd(Weight(w, k[1], k[2]), RMul(normalized_lr, error))
           ELSE w[k]]

\* The states the network is asked about: the initial position, the same
\* with a Black tile on (1,2) and on (3,2), and the position after Black's
\* first move (0,0)->(0,1).
ResetState == GameState(ResetBoard, PlayerBlack, ResetInventory)

NetStates ==
  { ResetState,
    [ResetState EXCEPT !.board[2 * BOARD_W + 1].tile = TileBlack],
    [ResetState EXCEPT !.board[2 * BOARD_W + 3].tile = TileBlack],
    ApplyMove(ResetState, Move(0, 0, 0, 1)) }

Targets == {Rat(-1, 1), Rat(1, 1)}
Rates == {Rat(1, 2), Rat(1, 1), Rat(2, 1)}

\* A weights file: its pattern count and the tables save() wrote.
WeightsFile(n, w) == [num_tuples |-> n, tables |-> w]

Files ==
  LET trained == TdUpdate(EmptyWeights, ResetState, Rat(1, 1), Rat(1, 2), Zero)
  IN  { WeightsFile(NumTuples, EmptyWeights),
        WeightsFile(NumTuples, trained),
        WeightsFile(NumTuples - 1, trained),
        WeightsFile(NumTuples + 1, trained) }

\* NTupleNetwork::load(filename) on a file that opens: the tables after it.
NetworkLoad(w, file) ==
  IF file.num_tuples # NumTuples THEN w ELSE file.tables

\* A call of td_update.
CallTdUpdate(state, target, learning_rate) ==
  /\ calls < MaxCalls
  /\ ~crashed
  /\ calls' = calls + 1
  /\ call' = [op |-> "td_update", arg |-> <<state, target, learning_rate>>]
  /\ ret' = TRUE
  /\ \E g \in StraysOf(state) :
       IF g = Crash
         THEN crashed' = TRUE /\ UNCHANGED weights
         ELSE /\ weights' = TdUpdate(weights, state, target, learning_rate, g)
              /\ UNCHANGED crashed
  /\ UNCHANGED <<gameVars, move_history, serverVars, trainVars, sharedVars, searchVars, statusVars>>

\* NTuplePolicy::load(filename): true unless network_.load throws, and it
\* does not throw on a count mismatch.
CallLoad(file) ==
  /\ calls < MaxCalls
  /\ ~crashed
  /\ calls' = calls + 1
  /\ call' = [op |-> "load", arg |-> file]
  /\ weights' = NetworkLoad(weights, file)
  /\ ret' = TRUE
  /\ UNCHANGED <<gameVars, move_history, crashed, serverVars, trainVars, sharedVars, searchVars, statusVars>>

InitNet ==
  /\ board = ResetBoard
  /\ to_move = PlayerBlack
  /\ inventory = ResetInventory
  /\ last_move = NoMove
  /\ ply = 0
  /\ SessionIdle
  /\ FreshNetwork
  /\ NoClients
  /\ NoTraining
  /\ NoSearch

NextNet ==
  \/ \E state \in NetStates, target \in Targets, learning_rate \in Rates :
       CallTdUpdate(state, target, learning_rate)
  \/ \E file \in Files : CallLoad(file)

SpecNet == InitNet /\ [][NextNet]_vars

\* x is strictly closer to t than y is.
Closer(x, t, y) == RLess(RAbs(RSub(t, x)), RAbs(RSub(t, y)))

\* C12: for every state S, target t and learning rate lr > 0, when
\* evaluate(S) differs from t, evaluate(S) after td_update(S, t, lr) is
\* strictly closer to t than before.
C12_UpdateMovesTowardTarget ==
  \A state \in NetStates, target \in Targets, learning_rate \in Rates :
    \A before \in EvaluateOutcomes(weights, state) :
      (before # Crash /\ before # target) =>
        \A g \in StraysOf(state) :
          /\ g # Crash
          /\ \A after \in EvaluateOutcomes(
                            TdUpdate(weights, state, target, learning_rate, g),
                            state) :
               after # Crash /\ Closer(after, target, before)

\* The mirror image of a state: board flipped left-right, same inventories
\* and side to move.
Mirror(state) == [state EXCEPT !.board = FlipH(state.board)]

\* C13: evaluate returns the same value for a state and for its mirror
\* image, whatever td_update calls came before.
C13_MirrorEvaluatesEqual ==
  \A state \in NetStates :
    \A a \in EvaluateOutcomes(weights, state) :
      \A c \in EvaluateOutcomes(weights, Mirror(state)) :
        a # Crash /\ a = c

\* C14: with Black to move in S, evaluate(S) is the negation of evaluate(S')
\* for S' = S with White to move.
C14_Negamax ==
  \A state \in NetStates :
    \A a \in EvaluateOutcomes(weights, [state EXCEPT !.to_move = PlayerBlack]) :
      \A c \in EvaluateOutcomes(weights, [state EXCEPT !.to_move = PlayerWhite]) :
        a # Crash /\ c # Crash /\ a = RNeg(c)

\* The value of an int as a long long.
IntValue(n) ==
  IF n >= 0 THEN LongLong(0, n) ELSE LongLong(-1, (n + Two30) + Two30)

\* C39: the slot td_update reads and writes (and evaluate reads) for a
\* pattern is the slot at the full value of to_index, not a truncated,
\* wrapped or negative one, and it is below the length of the pattern's
\* table.
C39_SlotIsTheFullIndex ==
  [][(calls' = calls + 1 /\ call'.op = "td_update") =>
       \A i \in 1 .. NumTuples :
         LET state == call'.arg[1]
             v == to_index(base_patterns[i], CanonicalState(state), 0, 0)
         IN /\ IntValue(SlotOf(state, i)) = v
            /\ InTable(SlotOf(state, i))
            /\ LongLongLess(v, num_states)]_vars

\* C16: loading a file whose pattern count differs from the catalogue's
\* leaves the weights as they were and tells the caller that it failed.
C16_MismatchReported ==
  [][ (calls' = calls + 1 /\ call'.op = "load"
         /\ call'.arg.num_tuples # NumTuples)
      => (weights' = weights /\ ret' = FALSE) ]_vars

\* ------------------------------------------------------------- Move table

\* The directions a piece moves in, by the tile it stands on.
Orthogonal == {<<1, 0>>, <<-1, 0>>, <<0, 1>>, <<0, -1>>}
Diagonal == {<<1, 1>>, <<-1, 1>>, <<1, -1>>, <<-1, -1>>}

DirectionsOf(tile) ==
  IF tile = TileNone THEN Orthogonal
  ELSE IF tile = TileBlack THEN Diagonal
  ELSE Orthogonal \cup Diagonal

\* The steps that stay on an axis of the given size, from coordinate c in
\* direction d.
StepsOnAxis(c, d, size) ==
  IF d > 0 THEN size - 1 - c ELSE IF d < 0 THEN c ELSE kMaxRayLength

Min(m, n) == IF m < n THEN m ELSE n

\* The straight line leaving cell o in direction dir: the offsets of its
\* cells in order of distance, up to the board edge.
LineFrom(o, dir) ==
  LET len == Min(StepsOnAxis(o % BOARD_W, dir[1], BOARD_W),
                 StepsOnAxis(o \div BOARD_W, dir[2], BOARD_H))
  IN  [k \in 1 .. len |-> k * (dir[1] + BOARD_W * dir[2])]

\* The cells a table ray lists: the first step_count offsets.
RayOffsets(r) == SubSeq(r.rel_index, 1, r.step_count)

\* The table entry e for origin o has one ray per direction of the tile,
\* its rays are exactly the straight lines from o in those directions, and
\* every offset stays on the board.
EntryIsLines(e, tile, o) ==
  LET rays == << RayOffsets(e.dirs[1]), RayOffsets(e.dirs[2]),
                 RayOffsets(e.dirs[3]), RayOffsets(e.dirs[4]),
                 RayOffsets(e.dirs[5]), RayOffsets(e.dirs[6]),
                 RayOffsets(e.dirs[7]), RayOffsets(e.dirs[8]) >>
      lines == { <<dir, LineFrom(o, dir)>> : dir \in DirectionsOf(tile) }
  IN  /\ e.dir_count = Cardinality(DirectionsOf(tile))
      /\ \A l \in lines :
           Cardinality({ d \in 1 .. e.dir_count : rays[d] = l[2] })
             = Cardinality({ other \in lines : other[2] = l[2] })
      /\ \A d \in 1 .. e.dir_count :
           \A k \in 1 .. Len(rays[d]) : o + rays[d][k] \in Cells

\* C17: for every tile kind and origin, the rays of the move table are
\* exactly the straight lines leaving the origin in the tile's directions,
\* in order of distance up to the edge, never leaving the board; so are the
\* rays legal_moves walks for each cell of the board.
C17_RaysAreStraightLines ==
  /\ \A tile \in {TileNone, TileBlack, TileGray}, o \in Cells :
       EntryIsLines(kMoveTable[tile + 1][o + 1], tile, o)
  /\ \A o \in Cells :
       RaysOf(board, o)
         = { r \in RaysOf(board, o) :
               \E dir \in DirectionsOf(board[o].tile) :
                 RayOffsets(r) = LineFrom(o, dir) }

\* A piece of the side to move stands on a gray tile and has a legal move
\* along a diagonal and another along a rank or file.
C17_Witness ==
  \E o \in Cells :
    /\ board[o].occupant = to_move
    /\ board[o].tile = TileGray
    /\ \E m \in LegalMoves(State) :
         Src(m) = o /\ m.dx # m.sx /\ m.dy # m.sy
    /\ \E m \in LegalMoves(State) :
         Src(m) = o /\ (m.dx = m.sx \/ m.dy = m.sy)

\* --------------------------------------------------------- TCP game server

\* The sessions of the list that are active with the given role.
ActiveWith(ss, list, role) ==
  { c \in list : ss[c].active /\ ss[c].role = role }

\* assign_role_locked()
assign_role_locked(ss, list) ==
  LET has_O == ActiveWith(ss, list, "O") # {}
      has_X == ActiveWith(ss, list, "X") # {}
  IN  IF ~has_X THEN "X" ELSE IF ~has_O THEN "O" ELSE "spectator"

\* A check that looks at role X only.
role_in_use_x_only(ss, list, role, requester) ==
  /\ role = "X"
  /\ ActiveWith(ss, list \ {requester}, role) # {}

\* role_in_use_locked(role, requester)
role_in_use_locked(ss, list, role, requester) ==
  /\ role \in {"X", "O"}
  /\ ActiveWith(ss, list \ {requester}, role) # {}

\* The role tokens clients send.
RoleTokens == {"X", "o", "spec", "-", "Q"}

\* std::toupper over the token.
ToUpper(token) ==
  IF token = "o" THEN "O" ELSE IF token = "spec" THEN "SPEC" ELSE token

\* handle_role: the role a token asks for; "?" when the request is refused
\* before any role is looked at.
RequestedRole(session, token) ==
  LET normalized == ToUpper(token)
  IN  IF token = "" THEN "?"
      ELSE IF normalized = "-" THEN session.role
      ELSE IF normalized \in {"X", "O"} THEN normalized
      ELSE IF normalized \in {"SPECTATOR", "SPEC"} THEN "spectator"
      ELSE "?"

ServerCall(op, arg) ==
  /\ call' = [op |-> op, arg |-> arg]
  /\ UNCHANGED <<gameVars, move_history, ret, calls, netVars, trainVars,
                 sharedVars, searchVars, statusVars>>

\* accept_loop: a connection arrives and gets its session, role and thread;
\* client_thread greets it.
Accept(c) ==
  /\ sessions[c].thread = "none"
  /\ sessions' = [sessions EXCEPT
       ![c] = ClientSession("running",
                            assign_role_locked(sessions, g_clients), TRUE)]
  /\ g_clients' = g_clients \cup {c}
  /\ reply' = "INFO"
  /\ ServerCall("accept", <<>>)

\* handle_role(session, payload) for the session of connection c.
HandleRole(c, token) ==
  LET requested_role == RequestedRole(sessions[c], token)
  IN  /\ sessions[c].thread = "running"
      /\ IF requested_role = "?"
              \/ role_in_use_locked(sessions, g_clients, requested_role, c)
           THEN /\ reply' = "ERROR"
                /\ UNCHANGED <<sessions, g_clients>>
           ELSE /\ sessions' = [sessions EXCEPT ![c].role = requested_role]
                /\ reply' = "INFO"
                /\ UNCHANGED g_clients
      /\ ServerCall("ROLE", <<c, token>>)

\* client_thread leaves its loop: session->active = false.
Disconnect(c) ==
  /\ sessions[c].thread = "running"
  /\ sessions' = [sessions EXCEPT ![c].thread = "exited", ![c].active = FALSE]
  /\ reply' = "none"
  /\ UNCHANGED g_clients
  /\ ServerCall("disconnect", <<>>)

\* remove_client(session) at the end of client_thread.
RemoveClient(c) ==
  /\ sessions[c].thread = "exited"
  /\ sessions' = [sessions EXCEPT ![c] = NoSession]
  /\ g_clients' = g_clients \ {c}
  /\ reply' = "none"
  /\ ServerCall("remove_client", <<>>)

\* broadcast_state after a player's move: inactive sessions are erased
\* from the list; so is the one in `failed`, if any, whose send throws,
\* after being marked inactive.
BroadcastState(failed) ==
  /\ \E c \in g_clients :
       sessions[c].thread = "running" /\ sessions[c].role \in {"X", "O"}
  /\ failed \subseteq { c \in g_clients : sessions[c].active }
  /\ Cardinality(failed) <= 1
  /\ sessions' = [c \in Clients |->
                    IF c \in failed THEN [sessions[c] EXCEPT !.active = FALSE]
                    ELSE sessions[c]]
  /\ g_clients' = { c \in g_clients : sessions[c].active /\ c \notin failed }
  /\ reply' = "STATE"
  /\ ServerCall("broadcast_state", <<>>)

InitServer ==
  /\ board = ResetBoard
  /\ to_move = PlayerBlack
  /\ inventory = ResetInventory
  /\ last_move = NoMove
  /\ ply = 0
  /\ SessionIdle
  /\ FreshNetwork
  /\ NoClients
  /\ NoTraining
  /\ NoSearch

NextServer ==
  \/ \E c \in Clients : Accept(c)
  \/ \E c \in Clients, token \in RoleTokens : HandleRole(c, token)
  \/ \E c \in Clients : Disconnect(c)
  \/ \E c \in Clients : RemoveClient(c)
  \/ \E failed \in SUBSET Clients : BroadcastState(failed)

SpecServer == InitServer /\ [][NextServer]_vars

\* The connected clients holding the given role.
Holders(ss, role) == { c \in Clients : ss[c].active /\ ss[c].role = role }

\* C20: at most one connected client holds X and at most one holds O; a
\* new connection gets the first free of X and O, else spectator; a ROLE
\* request for a role another connected client holds is answered with
\* ERROR and changes no role.
C20_RolesExclusive ==
  [][ /\ Cardinality(Holders(sessions', "X")) <= 1
      /\ Cardinality(Holders(sessions', "O")) <= 1
      /\ \A c \in Clients :
           (call'.op = "accept" /\ sessions[c].thread = "none"
              /\ sessions'[c].thread = "running") =>
             sessions'[c].role =
               IF Holders(sessions, "X") = {} THEN "X"
               ELSE IF Holders(sessions, "O") = {} THEN "O"
               ELSE "spectator"
      /\ \A c \in Clients, role \in {"X", "O"} :
           ( /\ \E token \in RoleTokens :
                  /\ ToUpper(token) = role
                  /\ call' = [op |-> "ROLE", arg |-> <<c, token>>]
             /\ Holders(sessions, role) \ {c} # {} )
           => (reply' = "ERROR" /\ sessions' = sessions) ]_vars

\* A client has just been refused a role that another connected client
\* holds, while both X and O are held.
C20_Witness ==
  /\ call.op = "ROLE"
  /\ reply = "ERROR"
  /\ ToUpper(call.arg[2]) \in {"X", "O"}
  /\ Holders(sessions, ToUpper(call.arg[2])) \ {call.arg[1]} # {}
  /\ Holders(sessions, "X") # {}
  /\ Holders(sessions, "O") # {}

\* ---------------------------------------------------------------- Policies

\* RandomPolicy::pick(s): the moves it may return, uniform over the list.
RandomPick(s) == LegalMoves(s)

\* The mover's distance to its goal rank from row y.
GoalDistance(p, y) == IF p = PlayerBlack THEN BOARD_H - 1 - y ELSE y

\* GreedyPolicy::pick(s): moves that strictly reduce the mover's distance
\* to its goal rank; failing those, moves that do not retreat; failing
\* those, any move.
GreedyPick(s) ==
  LET moves == LegalMoves(s)
      p == s.to_move
      advancing == { m \in moves :
                       GoalDistance(p, m.dy) < GoalDistance(p, m.sy) }
      holding == { m \in moves :
                     GoalDistance(p, m.dy) = GoalDistance(p, m.sy) }
  IN  IF advancing # {} THEN advancing
      ELSE IF holding # {} THEN holding
      ELSE moves

\* `float value = -network_.evaluate(next)`: the values the loop of pick
\* may see for move m.
PickValues(w, s, m) ==
  { RNeg(v) : v \in EvaluateOutcomes(w, ApplyMove(s, m)) \ {Crash} }

\* The smaller of two values, and the least of a non-empty set of them.
RMin(a, b) == IF RLess(b, a) THEN b ELSE a

RECURSIVE RLeast(_)
RLeast(values) ==
  LET v == CHOOSE x \in values : TRUE
  IN  IF values = {v} THEN v ELSE RMin(v, RLeast(values \ {v}))

\* 1e-6f, the width of a tie in pick.
TieWidth == Rat(1, 1000000)

\* A pick that lists the moves of the side not to move.
PickForOpponent(w, s) == LegalMoves([s EXCEPT !.to_move = Opponent(s.to_move)])

\* NTuplePolicy::pick(s): the moves it may return. The loop ends with
\* best_value the largest value seen and best_moves the moves within a tie
\* of it that came at or after the first largest one; the list order and
\* the stray reads being free, a move can be returned when one of its
\* values is within a tie of every other move's least value. With no legal
\* move the default Move is returned.
NTuplePick(w, s) ==
  LET moves == LegalMoves(s)
      valued == { <<m, PickValues(w, s, m)>> : m \in moves }
      least == { RLeast(p[2]) : p \in { q \in valued : q[2] # {} } }
  IN  IF moves = {} THEN {NoMove}
      ELSE { p[1] : p \in { q \in valued :
                              \E v \in q[2] :
                                \A l \in least : RLess(RSub(l, v), TieWidth) } }

\* pick does not return: an evaluate call read outside its table and ended
\* the process.
PickCrashes(w, s) ==
  \E m \in LegalMoves(s) : Crash \in EvaluateOutcomes(w, ApplyMove(s, m))

\* What the players hold when the policies are tried: no tiles at all,
\* one black tile in Black's stock, or one gray tile in White's.
PolicyInventories ==
  { [p \in Players |-> TileInventory(0, 0)],
    [p \in Players |-> IF p = PlayerBlack THEN TileInventory(1, 0)
                       ELSE TileInventory(0, 0)],
    [p \in Players |-> IF p = PlayerWhite THEN TileInventory(0, 1)
                       ELSE TileInventory(0, 0)] }

\* The picks made in a row.
MaxPicks == 1

\* The networks the N-tuple policy is tried with: fresh, and after one
\* update on the initial position.
PolicyWeights ==
  { EmptyWeights,
    TdUpdate(EmptyWeights, ResetState, Rat(1, 1), Rat(1, 2), Zero) }

\* The caller plays the move a policy picked.
PlayPicked(policy, picks) ==
  /\ ply < MaxPicks
  /\ ~crashed
  /\ \E m \in picks : Play(m)
  /\ call' = [op |-> policy, arg |-> <<>>]
  /\ UNCHANGED <<move_history, ret, calls, netVars, serverVars, trainVars, sharedVars, searchVars, statusVars>>

RandomMove == PlayPicked("RandomPolicy", RandomPick(State))

GreedyMove == PlayPicked("GreedyPolicy", GreedyPick(State))

NTupleMove == PlayPicked("NTuplePolicy", NTuplePick(weights, State))

NTupleCrash ==
  /\ ply < MaxPicks
  /\ ~crashed
  /\ LegalMoves(State) # {}
  /\ PickCrashes(weights, State)
  /\ crashed' = TRUE
  /\ call' = [op |-> "NTuplePolicy", arg |-> <<>>]
  /\ UNCHANGED <<gameVars, move_history, ret, calls, weights, serverVars, trainVars, sharedVars, searchVars, statusVars>>

InitPolicy ==
  /\ board = ResetBoard
  /\ to_move \in Players
  /\ inventory \in PolicyInventories
  /\ last_move = NoMove
  /\ ply = 0
  /\ SessionIdle
  /\ weights \in PolicyWeights
  /\ crashed = FALSE
  /\ NoClients
  /\ NoTraining
  /\ NoSearch

NextPolicy ==
  \/ RandomMove
  \/ GreedyMove
  \/ NTupleMove
  \/ NTupleCrash

SpecPolicy == InitPolicy /\ [][NextPolicy]_vars

\* C18: in a state with at least one legal move, the move a policy's pick
\* returns (random, greedy, N-tuple) is an element of legal_moves(state).
C18_PickIsLegal ==
  [][ (ply' = ply + 1 /\ LegalMoves(State) # {})
      => last_move' \in LegalMoves(State) ]_vars

\* The N-tuple policy has just picked a move that places a tile.
C18_Witness ==
  /\ call.op = "NTuplePolicy"
  /\ ~crashed
  /\ ply >= 1
  /\ last_move.place_tile

\* ---------------------------------------------------------------------
\* Parallel self-play trainer (apps/train_ntuple/train_selfplay.cpp):
\* worker threads play games and push the trajectories, one updater thread
\* pops them and trains the learner, the main thread starts and joins them.
\* ---------------------------------------------------------------------

\* const int MAX_MOVES = 500, scaled: the longest game of a run.
MAX_MOVES == 2

\* float promotion_threshold = 0.55f, in percent.
promotion_threshold == 55

\* The td_updates a run of the shared network's callers makes.
MaxUpdates == 2

\* A lock that is granted while another thread holds it.
CanLockAlways(m) == TRUE

\* std::lock_guard<std::mutex> lock(mutex_) returns once the mutex is free.
CanLock(m) == m = -1

\* The methods of SharedNTupleNetwork a worker calls, and the updater.
MethodsOf(t) ==
  IF t = Updater THEN {"td_update", "copy", "replace"} ELSE {"evaluate"}

Readers == {"evaluate", "copy"}

\* A thread calls a method and reaches its lock_guard.
SharedCall(t, method) ==
  /\ callers[t].at = "out"
  /\ method \in MethodsOf(t)
  /\ method = "td_update" => network_[1] < MaxUpdates
  /\ callers' = [callers EXCEPT ![t] = [method |-> method, at |-> "lock",
                                        seen |-> <<>>]]
  /\ UNCHANGED <<mutex_, network_>>
  /\ UNCHANGED <<gameVars, sessionVars, netVars, serverVars, trainVars,
                 searchVars, statusVars>>

\* The lock_guard takes the mutex.
SharedLock(t) ==
  /\ callers[t].at = "lock"
  /\ CanLock(mutex_)
  /\ mutex_' = t
  /\ callers' = [callers EXCEPT ![t].at = "first"]
  /\ UNCHANGED network_
  /\ UNCHANGED <<gameVars, sessionVars, netVars, serverVars, trainVars,
                 searchVars, statusVars>>

\* One half of the weights as the method of t leaves it: evaluate and copy
\* read it, td_update moves it on, replace stores the weights given (0).
HalfAfter(method, half) ==
  IF method = "td_update" THEN half + 1
  ELSE IF method = "replace" THEN 0
  ELSE half

\* The body of the method works on the first half of the weights.
SharedFirst(t) ==
  /\ callers[t].at = "first"
  /\ network_' = [network_ EXCEPT ![1] = HalfAfter(callers[t].method, @)]
  /\ callers' = [callers EXCEPT ![t].at = "second",
                                ![t].seen = <<network_[1]>>]
  /\ UNCHANGED mutex_
  /\ UNCHANGED <<gameVars, sessionVars, netVars, serverVars, trainVars,
                 searchVars, statusVars>>

\* The body works on the second half, the method returns and the lock_guard
\* frees the mutex.
SharedSecond(t) ==
  /\ callers[t].at = "second"
  /\ network_' = [network_ EXCEPT ![2] = HalfAfter(callers[t].method, @)]
  /\ callers' = [callers EXCEPT ![t].at = "out",
                                ![t].seen = Append(@, network_[2])]
  /\ mutex_' = -1
  /\ UNCHANGED <<gameVars, sessionVars, netVars, serverVars, trainVars,
                 searchVars, statusVars>>

InitShared ==
  /\ board = ResetBoard
  /\ to_move = PlayerBlack
  /\ inventory = ResetInventory
  /\ last_move = NoMove
  /\ ply = 0
  /\ SessionIdle
  /\ FreshNetwork
  /\ NoClients
  /\ NoTraining
  /\ NoSearch

NextShared ==
  \E t \in Threads :
    \/ \E method \in {"evaluate", "td_update", "copy", "replace"} :
         SharedCall(t, method)
    \/ SharedLock(t)
    \/ SharedFirst(t)
    \/ SharedSecond(t)

SpecShared == InitShared /\ [][NextShared]_vars

\* std::queue<GameResult>::push under the lock, then notify_one: the result
\* goes to the back whatever the size of the queue.
QueuePush(q, result) == Append(q, result)

\* A wait that done_ does not end.
PopReadyIgnoringDone(q, d) == q # <<>>

\* The predicate pop waits on: cv_.wait(lock, !queue_.empty() || done_).
PopReady(q, d) == q # <<>> \/ d

\* The result pushed last.
QueueBack(q) == q[Len(q)]

\* queue_.front(), the result pop hands out.
QueueFront(q) == Head(q)

\* queue_.pop()
QueuePop(q) == Tail(q)

\* A counter whose increment is lost: the value read is stored back.
fetch_add_lost(counter) == [old |-> counter, new |-> counter]

\* std::atomic<int>::fetch_add(1): the value read and the value stored, as
\* one indivisible step.
fetch_add(counter) == [old |-> counter, new |-> counter + 1]

\* Only the published pointer keeps an object: a plain pointer whose old
\* object is deleted when it is replaced.
ReferencedByPublished(id, ptr, ws, upd) == ptr = id

\* A shared_ptr to the object is held: the published pointer, a worker's
\* opponent_ptr or the updater's initial_opponent.
Referenced(id, ptr, ws, upd) ==
  \/ ptr = id
  \/ \E w \in Workers : ws[w].opponent_ptr = id
  \/ upd.initial_opponent = id

\* shared_ptr release: an object lives until its last shared_ptr is gone.
Collect(h, ptr, ws, upd) ==
  [id \in DOMAIN h |->
     [h[id] EXCEPT !.alive = h[id].alive /\ Referenced(id, ptr, ws, upd)]]

\* std::make_shared<NTupleNetwork>(learner_network.copy())
Snapshot(version) == [weights |-> version, alive |-> TRUE]

Freed == -1

\* The weights a move chosen with *ptr is chosen with.
ReadSnapshot(h, ptr) ==
  IF ptr \in DOMAIN h /\ h[ptr].alive THEN h[ptr].weights ELSE Freed

\* worker_thread, the head of a round: games_completed.fetch_add(1); past
\* the target the loop ends, else atomic_load of the opponent,
\* learner_is_black.load(), the starting side by the parity of the game
\* number, and the empty result. (The loads read nothing the claim writes.)
WorkerClaim(w) ==
  /\ workers[w].pc = "claim"
  /\ LET claim == fetch_add(games_completed)
     IN /\ games_completed' = claim.new
        /\ workers' =
             IF claim.old >= config.num_games
               THEN [workers EXCEPT ![w].game_num = claim.old,
                                    ![w].pc = "exit"]
               ELSE [workers EXCEPT
                       ![w].game_num = claim.old,
                       ![w].opponent_ptr = opponent_network_ptr,
                       ![w].is_black = learner_is_black,
                       ![w].to_move = IF (claim.old + 1) % 2 = 1
                                      THEN PlayerWhite ELSE PlayerBlack,
                       ![w].result = GameResult(claim.old, <<>>, PlayerNone,
                                                learner_is_black, -1),
                       ![w].reads = <<>>,
                       ![w].move_count = 0,
                       ![w].pc = "play"]
  /\ UNCHANGED <<config, turns_processed, opponent_state, queue_, done_, games_processed, updater, main_pc,
                 learner, opponent_network_ptr, heap, learner_is_black,
                 pushed, applied>>
  /\ UNCHANGED <<gameVars, sessionVars, netVars, serverVars, sharedVars, searchVars, statusVars>>

\* play_selfplay_game_shared, one round of its loop: the state is recorded,
\* then the game is found over (over names the winner) or the side to move
\* picks a move: the learner with the shared network, the opponent with the
\* network the worker loaded. MAX_MOVES moves end the game as a draw. The
\* games explored are decided in their last round or drawn.
WorkerMove(w, over) ==
  /\ workers[w].pc = "play"
  /\ LET me == workers[w]
         res == me.result
         players == Append(res.players, me.to_move)
         current_is_learner == (me.to_move = PlayerBlack) = me.is_black
         reads == IF current_is_learner THEN me.reads
                  ELSE Append(me.reads, ReadSnapshot(heap, me.opponent_ptr))
     IN /\ over # PlayerNone => Len(res.players) = MAX_MOVES - 1
        /\ workers' =
             [workers EXCEPT
                ![w].result = [res EXCEPT !.players = players,
                                          !.winner = over],
                ![w].reads = IF over # PlayerNone THEN me.reads ELSE reads,
                ![w].to_move = IF over # PlayerNone THEN me.to_move
                               ELSE Opponent(me.to_move),
                ![w].move_count = IF over # PlayerNone THEN me.move_count
                                  ELSE me.move_count + 1,
                ![w].played = (me.game_num :> me.is_black) @@ @,
                ![w].pc = IF over # PlayerNone
                             \/ me.move_count + 1 >= MAX_MOVES
                          THEN "push" ELSE "play"]
  /\ UNCHANGED <<config, turns_processed, opponent_state, queue_, done_, games_completed, games_processed,
                 updater, main_pc, learner, opponent_network_ptr, heap,
                 learner_is_black, pushed, applied>>
  /\ UNCHANGED <<gameVars, sessionVars, netVars, serverVars, sharedVars, searchVars, statusVars>>

\* The results pushed so far.
RECURSIVE Total(_, _)
Total(count, ids) ==
  IF ids = {} THEN 0
  ELSE LET id == CHOOSE x \in ids : TRUE
       IN count[id] + Total(count, ids \ {id})

Pushes(count) == Total(count, DOMAIN count)

\* worker_thread: result_queue.push(result), then the round ends and its
\* opponent_ptr goes out of scope.
WorkerPush(w) ==
  /\ workers[w].pc = "push"
  /\ queue_' = QueuePush(queue_, [workers[w].result EXCEPT
                                    !.seq = Pushes(pushed)])
  /\ pushed' = [pushed EXCEPT ![workers[w].result.id] = @ + 1]
  /\ workers' = [workers EXCEPT ![w].opponent_ptr = 0,
                                ![w].result = NoResult,
                                ![w].reads = <<>>,
                                ![w].pc = "claim"]
  /\ heap' = Collect(heap, opponent_network_ptr, workers', updater)
  /\ UNCHANGED <<config, turns_processed, opponent_state, done_, games_completed, games_processed, updater,
                 main_pc, learner, opponent_network_ptr, learner_is_black,
                 applied>>
  /\ UNCHANGED <<gameVars, sessionVars, netVars, serverVars, sharedVars, searchVars, statusVars>>

\* updater_thread before its loop: the first opponent is a copy of the
\* learner, published with atomic_store.
UpdaterInit ==
  /\ updater.pc = "init"
  /\ heap' = Append(heap, Snapshot(learner))
  /\ opponent_network_ptr' = Len(heap) + 1
  /\ updater' = [updater EXCEPT !.initial_opponent = Len(heap) + 1,
                                !.pc = "pop"]
  /\ UNCHANGED <<config, turns_processed, opponent_state, queue_, done_, games_completed, games_processed,
                 workers, main_pc, learner, learner_is_black, pushed,
                 applied>>
  /\ UNCHANGED <<gameVars, sessionVars, netVars, serverVars, sharedVars, searchVars, statusVars>>

\* a / b, b not zero.
RDiv(a, b) ==
  RMul(a, IF b[1] < 0 THEN <<-b[2], -b[1]>> ELSE <<b[2], b[1]>>)

\* std::max on the values.
RMax(a, b) == IF RLess(a, b) THEN b ELSE a

\* calculate_learning_rate of main.cpp with its default lr_max = 0.1f and
\* lr_min = 0.005f, on the exact values.
calculate_learning_rate(current_step, total_steps) ==
  IF total_steps <= 1 THEN Rat(1, 10)
  ELSE LET raw == Rat(current_step - 1, total_steps - 1)
           progress == IF RLess(raw, Zero) THEN Zero
                       ELSE IF RLess(Rat(1, 1), raw) THEN Rat(1, 1) ELSE raw
           lr_max == Rat(1, 10)
           lr_min == Rat(1, 200)
           k == Rat(19, 1)
       IN RAdd(lr_min,
               RDiv(RSub(lr_max, lr_min),
                    RAdd(Rat(1, 1), RMul(k, RMul(progress, progress)))))

\* The game numbers the learning rate is tabulated for.
LrGames == 64

\* std::max(0.1f / (1.0f + current_game / 10000.0f), 0.005f) for each game
\* number, on the exact values.
LrTable ==
  [g \in 1 .. LrGames |->
     RMax(RDiv(Rat(1, 10), RAdd(Rat(1, 1), Rat(g, 10000))), Rat(1, 200))]

\* updater_thread of train_selfplay.cpp: the learning rate of a game,
\* std::max(0.1f / (1.0f + current_game / 10000.0f), 0.005f), on the exact
\* values.
current_lr(current_game) == LrTable[current_game]

\* updater_thread: result_queue.pop(result). It waits for a result or for
\* done_; with the queue empty it returns false and the thread leaves its
\* loop and returns, else the front result is taken and counted.
UpdaterPop ==
  /\ updater.pc = "pop"
  /\ PopReady(queue_, done_)
  /\ IF queue_ = <<>>
       THEN /\ updater' = [updater EXCEPT !.pc = "exit",
                                          !.initial_opponent = 0]
            /\ heap' = Collect(heap, opponent_network_ptr, workers, updater')
            /\ UNCHANGED <<queue_, games_processed>>
       ELSE /\ queue_' = QueuePop(queue_)
            /\ games_processed' = fetch_add(games_processed).new
            /\ updater' =
                 [updater EXCEPT !.result = QueueFront(queue_), !.i = 1,
                                 !.current_game = games_processed + 1,
                                 !.current_lr =
                                    current_lr(games_processed + 1),
                                 !.pc = "update"]
            /\ UNCHANGED heap
  /\ UNCHANGED <<config, turns_processed, opponent_state, done_, games_completed, workers, main_pc, learner,
                 opponent_network_ptr, learner_is_black, pushed, applied>>
  /\ UNCHANGED <<gameVars, sessionVars, netVars, serverVars, sharedVars, searchVars, statusVars>>

\* A test against the colour flag as it is when the game is processed.
state_is_learner_now(result, i) ==
  (result.players[i] = PlayerBlack) = learner_is_black

\* updater_thread: the recorded state belongs to the learner.
state_is_learner(result, i) ==
  (result.players[i] = PlayerBlack) = result.learner_was_black

\* A target that takes every game without this player as winner for lost.
td_target_no_draw(result, i) ==
  IF result.winner = result.players[i] THEN 1 ELSE -1

\* updater_thread: the target of the state's update: 1 when the player to
\* move in it won the game, -1 when the other player won, 0 for a draw.
td_target(result, i) ==
  IF result.winner = result.players[i] THEN 1
  ELSE IF result.winner # PlayerNone /\ result.winner # result.players[i]
    THEN -1
  ELSE 0

\* updater_thread, one round of the loop over result.states: td_update on a
\* state of the learner, nothing on a state of the opponent.
UpdaterTdUpdate ==
  /\ updater.pc = "update"
  /\ updater.i <= Len(updater.result.players)
  /\ IF state_is_learner(updater.result, updater.i)
       THEN /\ learner' = learner + 1
            /\ applied' = [applied EXCEPT ![updater.result.id] =
                                           Append(@, updater.i)]
            /\ updater' = [updater EXCEPT
                             !.target = td_target(updater.result, updater.i),
                             !.i = updater.i + 1]
       ELSE /\ updater' = [updater EXCEPT !.i = updater.i + 1]
            /\ UNCHANGED <<learner, applied>>
  /\ UNCHANGED <<config, turns_processed, opponent_state, queue_, done_, games_completed, games_processed,
                 workers, main_pc, opponent_network_ptr, heap,
                 learner_is_black, pushed>>
  /\ UNCHANGED <<gameVars, sessionVars, netVars, serverVars, sharedVars, searchVars, statusVars>>

\* updater_thread: the learner won the game.
learner_won(result) ==
  \/ result.winner = PlayerBlack /\ result.learner_was_black
  \/ result.winner = PlayerWhite /\ ~result.learner_was_black

\* recent_wins.push_back(learner_won), trimmed to evaluation_window.
PushRecent(recent, won, window) ==
  LET r == Append(recent, won)
  IN IF Len(r) > window THEN Tail(r) ELSE r

\* recent_learner_wins, the wins in the window.
RecentWins(recent) == Cardinality({ k \in 1 .. Len(recent) : recent[k] })

\* A flip that does not wait for the end of the initial training games.
SwapDueAtOnce(c, current_game, last_swap_game) ==
  current_game - last_swap_game >= c.swap_interval

\* updater_thread: the colour is due to flip after this game.
SwapDue(c, current_game, last_swap_game) ==
  /\ current_game > c.initial_training_games
  /\ current_game - last_swap_game >= c.swap_interval

\* updater_thread: the opponent is due to be replaced after this game.
PromotionDue(c, current_game, recent, since) ==
  /\ current_game > c.initial_training_games
  /\ Len(recent) >= c.evaluation_window
  /\ since >= c.evaluation_window
  /\ RecentWins(recent) * 100 >= promotion_threshold * Len(recent)

\* updater_thread after the updates of a game: the window and the counters,
\* the colour flip, the promotion of the opponent to a copy of the learner
\* (the window restarts), and back to pop. The checkpoint writes a file.
UpdaterBookkeeping ==
  /\ updater.pc = "update"
  /\ updater.i > Len(updater.result.players)
  /\ LET recent == PushRecent(updater.recent_wins,
                              learner_won(updater.result),
                              config.evaluation_window)
         since == updater.games_since_last_promotion + 1
         swap == SwapDue(config, updater.current_game,
                         updater.last_swap_game)
         promote == PromotionDue(config, updater.current_game, recent, since)
     IN /\ learner_is_black' = IF swap THEN ~learner_is_black
                               ELSE learner_is_black
        /\ updater' =
             [updater EXCEPT
                !.last_swap_game = IF swap THEN updater.current_game ELSE @,
                !.recent_wins = IF promote THEN <<>> ELSE recent,
                !.games_since_last_promotion = IF promote THEN 0 ELSE since,
                !.result = NoResult,
                !.i = 0,
                !.target = 0,
                !.pc = "pop"]
        /\ IF promote
             THEN /\ opponent_network_ptr' = Len(heap) + 1
                  /\ heap' = Collect(Append(heap, Snapshot(learner)),
                                     Len(heap) + 1, workers, updater')
             ELSE UNCHANGED <<opponent_network_ptr, heap>>
  /\ UNCHANGED <<config, turns_processed, opponent_state, queue_, done_, games_completed, games_processed,
                 workers, main_pc, learner, pushed, applied>>
  /\ UNCHANGED <<gameVars, sessionVars, netVars, serverVars, sharedVars, searchVars, statusVars>>

\* train_network_selfplay: the updater thread is started first.
MainStartUpdater ==
  /\ main_pc = "start"
  /\ updater' = [updater EXCEPT !.pc = "init"]
  /\ main_pc' = "wait_opponent"
  /\ UNCHANGED <<config, turns_processed, opponent_state, queue_, done_, games_completed, games_processed,
                 workers, learner, opponent_network_ptr, heap,
                 learner_is_black, pushed, applied>>
  /\ UNCHANGED <<gameVars, sessionVars, netVars, serverVars, sharedVars, searchVars, statusVars>>

\* train_network_selfplay: once the opponent is published the workers are
\* started.
MainStartWorkers ==
  /\ main_pc = "wait_opponent"
  /\ opponent_network_ptr # 0
  /\ workers' = [w \in Workers |-> [workers[w] EXCEPT !.pc = "claim"]]
  /\ main_pc' = "join_workers"
  /\ UNCHANGED <<config, turns_processed, opponent_state, queue_, done_, games_completed, games_processed,
                 updater, learner, opponent_network_ptr, heap,
                 learner_is_black, pushed, applied>>
  /\ UNCHANGED <<gameVars, sessionVars, netVars, serverVars, sharedVars, searchVars, statusVars>>

\* train_network_selfplay: every worker joined, then result_queue.set_done()
\* (done_ = true, notify_all).
MainSetDone ==
  /\ main_pc = "join_workers"
  /\ \A w \in Workers : workers[w].pc = "exit"
  /\ done_' = TRUE
  /\ main_pc' = "join_updater"
  /\ UNCHANGED <<config, turns_processed, opponent_state, queue_, games_completed, games_processed, workers,
                 updater, learner, opponent_network_ptr, heap,
                 learner_is_black, pushed, applied>>
  /\ UNCHANGED <<gameVars, sessionVars, netVars, serverVars, sharedVars, searchVars, statusVars>>

\* train_network_selfplay: updater.join(), the final save, the run is over.
MainJoinUpdater ==
  /\ main_pc = "join_updater"
  /\ updater.pc = "exit"
  /\ main_pc' = "done"
  /\ UNCHANGED <<config, turns_processed, opponent_state, queue_, done_, games_completed, games_processed,
                 workers, updater, learner, opponent_network_ptr, heap,
                 learner_is_black, pushed, applied>>
  /\ UNCHANGED <<gameVars, sessionVars, netVars, serverVars, sharedVars, searchVars, statusVars>>

\* The runs explored: a fresh game, no network file, no server, and a
\* trainer without bootstrap games that flips the colour every game and
\* judges the opponent on a window of one game.
InitTrain ==
  /\ board = ResetBoard
  /\ to_move = PlayerBlack
  /\ inventory = ResetInventory
  /\ last_move = NoMove
  /\ ply = 0
  /\ SessionIdle
  /\ FreshNetwork
  /\ NoClients
  /\ TrainingAt(TrainingConfig(TargetGames, 0, 1, 1, 1))
  /\ NoSearch

WorkerStep(w) ==
  \/ WorkerClaim(w)
  \/ \E over \in {PlayerNone, PlayerBlack, PlayerWhite} : WorkerMove(w, over)
  \/ WorkerPush(w)

UpdaterStep ==
  \/ UpdaterInit
  \/ UpdaterPop
  \/ UpdaterTdUpdate
  \/ UpdaterBookkeeping

MainStep ==
  \/ MainStartUpdater
  \/ MainStartWorkers
  \/ MainSetDone
  \/ MainJoinUpdater

NextTrain ==
  \/ \E w \in Workers : WorkerStep(w)
  \/ UpdaterStep
  \/ MainStep

SpecTrain == InitTrain /\ [][NextTrain]_vars

\* The colour the learner's moves of game id were chosen for.
LearnerColour(id) ==
  LET w == CHOOSE v \in Workers : id \in DOMAIN workers[v].played
  IN IF workers[w].played[id] THEN PlayerBlack ELSE PlayerWhite

\* C38: the colour treated as the learner's when the trajectory of a game is
\* processed is the colour the learner played in that game, whatever the
\* colour flag is by then: the states updated are those in which that colour
\* was to move, and the game counts as a learner win when that colour won.
C38_ColourOfTheGamePlayed ==
  /\ [](updater.pc = "update" =>
          LET r == updater.result
          IN /\ \A k \in 1 .. Len(r.players) :
                  state_is_learner(r, k) <=>
                    r.players[k] = LearnerColour(r.id)
             /\ learner_won(r) <=> r.winner = LearnerColour(r.id))
  /\ [][(updater.pc = "update" /\ updater'.i = updater.i + 1) =>
          ((learner' # learner) <=>
             updater.result.players[updater.i] =
               LearnerColour(updater.result.id))]_vars

\* The updater has updated a state of a game the learner played as Black
\* and won, after the colour flag was flipped to White.
C38_Witness ==
  /\ updater.pc = "update"
  /\ updater.result.learner_was_black
  /\ ~learner_is_black
  /\ updater.result.winner = PlayerBlack
  /\ applied[updater.result.id] # <<>>

\* The threads are OS threads: each one that can take a step eventually
\* takes one.
FairTrain ==
  /\ SpecTrain
  /\ \A w \in Workers : WF_vars(WorkerStep(w))
  /\ WF_vars(UpdaterStep)
  /\ WF_vars(MainStep)

\* The workers that hold a claimed game they have not pushed yet.
InGame(w) == workers[w].pc \in {"play", "push"}

\* C22: each game number below the target is claimed by exactly one worker:
\* no two workers hold the same game number, no number is pushed twice and
\* none is pushed while a worker still holds it; a worker whose claim is at
\* or past the target is out of its loop and has played nothing; and once
\* every worker has left, exactly one result per game number below the
\* target has been pushed.
C22_EachGameClaimedOnce ==
  /\ \A w \in Workers :
       InGame(w) =>
         /\ workers[w].game_num \in GameIds
         /\ pushed[workers[w].game_num] = 0
         /\ \A v \in Workers \ {w} :
              InGame(v) => workers[v].game_num # workers[w].game_num
  /\ \A id \in GameIds : pushed[id] <= 1
  /\ \A w \in Workers :
       workers[w].game_num >= config.num_games =>
         /\ workers[w].pc = "exit"
         /\ workers[w].result = NoResult
  /\ (\A w \in Workers : workers[w].pc = "exit") =>
       /\ \A id \in GameIds : pushed[id] = 1
       /\ Pushes(pushed) = config.num_games

\* Both workers have left after claims past the target, and every game
\* below the target was played and pushed.
C22_Witness ==
  /\ \A w \in Workers :
       workers[w].pc = "exit" /\ workers[w].game_num >= TargetGames
  /\ \A id \in GameIds : pushed[id] = 1
  /\ games_completed = TargetGames + NumWorkers

\* The td_updates of game id were applied, each state once.
ProcessedOnce(id) ==
  /\ Len(applied[id]) >= 1
  /\ \A j, k \in 1 .. Len(applied[id]) :
       applied[id][j] = applied[id][k] => j = k

\* C21: the updater leaves its loop only with done_ set and the queue
\* empty; once done_ is set the updater does leave; and when the run is over
\* every result a worker pushed has been popped and trained on exactly once.
C21_UpdaterDrainsThenExits ==
  /\ [](updater.pc = "exit" => done_ /\ queue_ = <<>>)
  /\ (done_ ~> updater.pc = "exit")
  /\ [](main_pc = "done" =>
          /\ games_processed = Pushes(pushed)
          /\ \A id \in GameIds : pushed[id] = 1 /\ ProcessedOnce(id))

\* The run is over: done_ was set, the updater has left with the queue empty
\* and every game below the target was popped.
C21_Witness ==
  /\ main_pc = "done"
  /\ done_
  /\ updater.pc = "exit"
  /\ queue_ = <<>>
  /\ games_processed = TargetGames

\* The states of the learner among the first n recorded states of a result,
\* in the order of the loop.
LearnerStates(result, n) ==
  LET Mine(k) == state_is_learner(result, k)
  IN SelectSeq([k \in 1 .. n |-> k], Mine)

\* The updater is between the pop of a result and the end of its updates.
Training == updater.pc = "update"

\* C27: the results leave the queue in the order they were pushed (the k-th
\* pop hands out the k-th result pushed), the updates applied for the result
\* in hand are those of its learner states so far, in order, each td_update
\* is for the result in hand, and a result is put down only after the loop
\* over its states has ended.
C27_FifoAndWholeTrajectories ==
  /\ [](/\ \A k \in 1 .. Len(queue_) :
             queue_[k].seq = games_processed + k - 1
        /\ Training =>
             /\ updater.result.seq = games_processed - 1
             /\ applied[updater.result.id] =
                  LearnerStates(updater.result, updater.i - 1))
  /\ [][/\ applied' # applied =>
             /\ Training
             /\ updater'.result = updater.result
             /\ \A id \in GameIds \ {updater.result.id} :
                  applied'[id] = applied[id]
        /\ (Training /\ updater'.result # updater.result) =>
             updater.i > Len(updater.result.players)]_vars

\* The second result pushed is in hand and was played as game 0: it was
\* started before the game pushed first, whose updates are all applied.
C27_Witness ==
  /\ Training
  /\ updater.result.seq = 1
  /\ updater.result.id = 0
  /\ updater.i >= 2
  /\ Len(applied[1]) >= 1

\* A capacity for the result queue: any fixed capacity below the number of
\* games of the run.
QueueCapacity == TargetGames - 1

\* C28: the results waiting in the queue never exceed the capacity: a push
\* onto a full queue waits for a pop.
C28_QueueBounded == Len(queue_) <= QueueCapacity

\* C25: while a worker is in a game the snapshot it loaded at the start is a
\* live object, every opponent move of the game so far was chosen with the
\* weights of that object, and no step of any thread changes the worker's
\* pointer or the object, whatever the updater publishes meanwhile.
C25_SnapshotHeldForTheGame ==
  /\ [](\A w \in Workers :
          InGame(w) =>
            /\ workers[w].opponent_ptr \in DOMAIN heap
            /\ heap[workers[w].opponent_ptr].alive
            /\ \A k \in 1 .. Len(workers[w].reads) :
                 workers[w].reads[k] = heap[workers[w].opponent_ptr].weights)
  /\ [][\A w \in Workers :
          (InGame(w) /\ workers'[w].pc \in {"play", "push"}) =>
            /\ workers'[w].opponent_ptr = workers[w].opponent_ptr
            /\ heap'[workers[w].opponent_ptr] =
                 heap[workers[w].opponent_ptr]]_vars

\* A worker's opponent has moved with the snapshot the worker loaded, after
\* the updater published another snapshot with other weights.
C25_Witness ==
  \E w \in Workers :
    /\ InGame(w)
    /\ Len(workers[w].reads) >= 1
    /\ workers[w].opponent_ptr # opponent_network_ptr
    /\ heap[workers[w].opponent_ptr].weights # heap[opponent_network_ptr].weights
    /\ workers[w].reads[Len(workers[w].reads)] # heap[opponent_network_ptr].weights

\* A thread is inside a method of the shared network, past its lock_guard.
Inside(t) == callers[t].at \in {"first", "second"}

\* C26: no two threads are inside methods of the shared network at once, so
\* no evaluate (or copy) overlaps a td_update or a replace; while a reader is
\* inside, the halves it has not read yet are those of the same whole
\* network, and every finished evaluate and copy saw both halves of one
\* version.
C26_EvaluateSeesWholeUpdates ==
  /\ \A t, u \in Threads : (Inside(t) /\ Inside(u)) => t = u
  /\ \A t \in Threads :
       callers[t].method \in Readers =>
         /\ callers[t].at = "first" => network_[1] = network_[2]
         /\ callers[t].at = "second" => callers[t].seen[1] = network_[2]
         /\ Len(callers[t].seen) = 2 =>
              callers[t].seen[1] = callers[t].seen[2]

\* A worker is between the two reads of an evaluate on weights the updater
\* has already changed once, and the updater's next td_update waits at the
\* lock.
C26_Witness ==
  \E w \in Workers :
    /\ callers[w].method = "evaluate"
    /\ callers[w].at = "second"
    /\ callers[w].seen = <<1>>
    /\ callers[Updater].method = "td_update"
    /\ callers[Updater].at = "lock"

\* ---------------------------------------------------------------------
\* Parallel trainer with a turn budget (unnamed/part_005): the learner is
\* Black, the opponent is a snapshot of the learner, the greedy policy or
\* the rule-based policy, and --turns ends training after that many
\* td_updates.
\* ---------------------------------------------------------------------

\* config.num_turns of the runs with a budget.
TurnBudget == 2

\* current_game - last_snapshot_game >= 100
SnapshotInterval == 100

\* struct TrainingConfig of this trainer, the fields the pipeline reads.
ParallelConfig(num_games, num_turns, save, opponent) ==
  [num_games |-> num_games, num_turns |-> num_turns, save_interval |-> save,
   opponent |-> opponent]

OpponentTypes == {"self", "greedy", "rulebased"}

\* train_network_parallel up to the start of the threads: the first
\* snapshot when the opponent is "self", then the updater and the workers.
ParallelStart ==
  /\ main_pc = "start"
  /\ opponent_state' =
       IF config.opponent = "self"
         THEN [opponent_state EXCEPT !.snapshot = learner]
         ELSE opponent_state
  /\ updater' = [updater EXCEPT !.pc = "pop"]
  /\ workers' = [w \in Workers |-> [workers[w] EXCEPT !.pc = "claim"]]
  /\ main_pc' = "join_workers"
  /\ UNCHANGED <<config, turns_processed, queue_, done_, games_completed,
                 games_processed, learner, opponent_network_ptr, heap,
                 learner_is_black, pushed, applied>>
  /\ UNCHANGED <<gameVars, sessionVars, netVars, serverVars, sharedVars, searchVars, statusVars>>

\* worker_thread: the claim, and past the target the end of the loop; else
\* play_training_game starts: a copy of the snapshot when the opponent is
\* "self", the reset state with Black to move.
ParallelClaim(w) ==
  /\ workers[w].pc = "claim"
  /\ LET claim == fetch_add(games_completed)
     IN /\ games_completed' = claim.new
        /\ workers' =
             IF claim.old >= config.num_games
               THEN [workers EXCEPT ![w].game_num = claim.old,
                                    ![w].pc = "exit"]
               ELSE [workers EXCEPT
                       ![w].game_num = claim.old,
                       ![w].opponent_network =
                          IF opponent_state.type = "self"
                            THEN opponent_state.snapshot ELSE 0,
                       ![w].to_move = PlayerBlack,
                       ![w].result = GameResult(claim.old, <<>>, PlayerNone,
                                                TRUE, -1),
                       ![w].reads = <<>>,
                       ![w].move_count = 0,
                       ![w].pc = "play"]
  /\ UNCHANGED <<config, turns_processed, opponent_state, queue_, done_,
                 games_processed, updater, main_pc, learner,
                 opponent_network_ptr, heap, learner_is_black, pushed,
                 applied>>
  /\ UNCHANGED <<gameVars, sessionVars, netVars, serverVars, sharedVars, searchVars, statusVars>>

\* play_training_game, one round of its loop: the state is recorded, then
\* the game is found over or the side to move picks a move: Black, the
\* learner, with the shared network, White with the copy of the snapshot or
\* with its policy. The games explored are decided in their last round or
\* drawn.
ParallelMove(w, over) ==
  /\ workers[w].pc = "play"
  /\ LET me == workers[w]
         res == me.result
         players == Append(res.players, me.to_move)
         reads == IF me.to_move = PlayerWhite /\ opponent_state.type = "self"
                    THEN Append(me.reads, me.opponent_network)
                    ELSE me.reads
     IN /\ over # PlayerNone => Len(res.players) = MAX_MOVES - 1
        /\ workers' =
             [workers EXCEPT
                ![w].result = [res EXCEPT !.players = players,
                                          !.winner = over],
                ![w].reads = IF over # PlayerNone THEN me.reads ELSE reads,
                ![w].to_move = IF over # PlayerNone THEN me.to_move
                               ELSE Opponent(me.to_move),
                ![w].move_count = IF over # PlayerNone THEN me.move_count
                                  ELSE me.move_count + 1,
                ![w].pc = IF over # PlayerNone
                             \/ me.move_count + 1 >= MAX_MOVES
                          THEN "push" ELSE "play"]
  /\ UNCHANGED <<config, turns_processed, opponent_state, queue_, done_,
                 games_completed, games_processed, updater, main_pc, learner,
                 opponent_network_ptr, heap, learner_is_black, pushed,
                 applied>>
  /\ UNCHANGED <<gameVars, sessionVars, netVars, serverVars, sharedVars, searchVars, statusVars>>

\* updater_thread: result_queue.pop(result); false ends the loop, else the
\* result is counted and the loop over its states starts at the last one.
ParallelPop ==
  /\ updater.pc = "pop"
  /\ PopReady(queue_, done_)
  /\ IF queue_ = <<>>
       THEN /\ updater' = [updater EXCEPT !.pc = "exit"]
            /\ UNCHANGED <<queue_, games_processed>>
       ELSE /\ queue_' = QueuePop(queue_)
            /\ games_processed' = fetch_add(games_processed).new
            /\ updater' =
                 [updater EXCEPT !.result = QueueFront(queue_),
                                 !.i = Len(QueueFront(queue_).players),
                                 !.current_game = games_processed + 1,
                                 !.pc = "update"]
  /\ UNCHANGED <<config, turns_processed, opponent_state, done_,
                 games_completed, workers, main_pc, learner,
                 opponent_network_ptr, heap, learner_is_black, pushed,
                 applied>>
  /\ UNCHANGED <<gameVars, sessionVars, netVars, serverVars, sharedVars, searchVars, statusVars>>

\* updater_thread, one round of the loop over result.states, last state
\* first: td_update on the state, whoever was to move.
ParallelTdUpdate ==
  /\ updater.pc = "update"
  /\ updater.i >= 1
  /\ learner' = learner + 1
  /\ applied' = [applied EXCEPT ![updater.result.id] = Append(@, updater.i)]
  /\ updater' = [updater EXCEPT
                   !.target = td_target(updater.result, updater.i),
                   !.i = updater.i - 1]
  /\ UNCHANGED <<config, turns_processed, opponent_state, queue_, done_,
                 games_completed, games_processed, workers, main_pc,
                 opponent_network_ptr, heap, learner_is_black, pushed>>
  /\ UNCHANGED <<gameVars, sessionVars, netVars, serverVars, sharedVars, searchVars, statusVars>>

\* updater_thread: the budget is set and used up.
BudgetReached(c, turns) == c.num_turns > 0 /\ turns >= c.num_turns

\* updater_thread after the updates of a game: the updates are added to
\* turns_processed, the snapshot is refreshed when it is SnapshotInterval
\* games old, a used-up budget ends the loop at once, else the checkpoint
\* (with another refresh of the snapshot) and back to pop.
ParallelBookkeeping ==
  /\ updater.pc = "update"
  /\ updater.i = 0
  /\ LET turns == turns_processed + Len(updater.result.players)
         self == config.opponent = "self"
         old == updater.current_game - updater.last_snapshot_game
                  >= SnapshotInterval
         stop == BudgetReached(config, turns)
         save == ~stop /\ updater.current_game % config.save_interval = 0
         refresh == self /\ (old \/ save)
     IN /\ turns_processed' = turns
        /\ opponent_state' =
             IF refresh THEN [opponent_state EXCEPT !.snapshot = learner]
             ELSE opponent_state
        /\ updater' =
             [updater EXCEPT
                !.last_snapshot_game =
                   IF refresh THEN updater.current_game ELSE @,
                !.result = NoResult,
                !.target = 0,
                !.pc = IF stop THEN "exit" ELSE "pop"]
  /\ UNCHANGED <<config, queue_, done_, games_completed, games_processed,
                 workers, main_pc, learner, opponent_network_ptr, heap,
                 learner_is_black, pushed, applied>>
  /\ UNCHANGED <<gameVars, sessionVars, netVars, serverVars, sharedVars, searchVars, statusVars>>

\* The runs explored: with and without a turn budget, against each kind of
\* opponent, a checkpoint after every game.
InitParallel ==
  /\ board = ResetBoard
  /\ to_move = PlayerBlack
  /\ inventory = ResetInventory
  /\ last_move = NoMove
  /\ ply = 0
  /\ SessionIdle
  /\ FreshNetwork
  /\ NoClients
  /\ SharedIdle
  /\ NoSearch
  /\ \E num_turns \in {0, TurnBudget}, opponent \in OpponentTypes :
       /\ config = ParallelConfig(TargetGames, num_turns, 1, opponent)
       /\ opponent_state = OpponentState(opponent, 0)
  /\ queue_ = <<>>
  /\ done_ = FALSE
  /\ games_completed = 0
  /\ games_processed = 0
  /\ workers = [w \in Workers |-> IdleWorker]
  /\ updater = IdleUpdater
  /\ main_pc = "start"
  /\ learner = 0
  /\ opponent_network_ptr = 0
  /\ heap = <<>>
  /\ learner_is_black = TRUE
  /\ turns_processed = 0
  /\ pushed = [id \in GameIds |-> 0]
  /\ applied = [id \in GameIds |-> <<>>]

NextParallel ==
  \/ ParallelStart
  \/ \E w \in Workers : ParallelClaim(w)
  \/ \E w \in Workers, over \in {PlayerNone, PlayerBlack, PlayerWhite} :
       ParallelMove(w, over)
  \/ \E w \in Workers : WorkerPush(w)
  \/ ParallelPop
  \/ ParallelTdUpdate
  \/ ParallelBookkeeping
  \/ MainSetDone
  \/ MainJoinUpdater

SpecParallel == InitParallel /\ [][NextParallel]_vars

\* The turn budget of the run is used up: training is stopped.
Stopped == BudgetReached(config, turns_processed)

\* C23: once the turn budget is used up a worker that reaches its counter
\* check leaves its loop, the updater is out of its loop only with the
\* queue empty, and when the run is over every pushed result was popped.
C23_StopDrainsTheQueue ==
  /\ [](updater.pc = "exit" => queue_ = <<>>)
  /\ [](main_pc = "done" => games_processed = Pushes(pushed))
  /\ [][\A w \in Workers :
          (Stopped /\ workers[w].pc = "claim" /\ workers'[w].pc # "claim")
            => workers'[w].pc = "exit"]_vars

\* C24: against an opponent that is not the learner (in this trainer always:
\* a snapshot, the greedy or the rule-based policy plays White) every
\* td_update for the result in hand was for a state with the learner,
\* Black, to move.
C24_OnlyLearnerStatesTrained ==
  Training =>
    \A k \in 1 .. Len(applied[updater.result.id]) :
      updater.result.players[applied[updater.result.id][k]] = PlayerBlack

\* ---------------------------------------------------------------------
\* The updater of train_selfplay.cpp over a longer run, for the cadence of
\* the colour flips and of the promotions: the workers are one producer
\* that pushes the result of a finished game when the queue is empty.
\* ---------------------------------------------------------------------

\* config.num_games of the runs explored for the cadence.
CadenceGames == 5

\* The largest initial_training_games, swap_interval and evaluation_window
\* of the configurations explored.
MaxInterval == 2

CadenceConfigs ==
  { TrainingConfig(CadenceGames, initial, swap, window, 1) :
      initial \in 0 .. MaxInterval, swap \in 1 .. MaxInterval,
      window \in 1 .. MaxInterval }

\* A worker finished the next game, which the learner played in its current
\* colour and moved in once, and pushes the result.
Produce(winner) ==
  /\ updater.pc = "pop"
  /\ queue_ = <<>>
  /\ Pushes(pushed) < config.num_games
  /\ LET id == Pushes(pushed)
         mine == IF learner_is_black THEN PlayerBlack ELSE PlayerWhite
     IN /\ queue_' = QueuePush(queue_, GameResult(id, <<mine>>, winner,
                                                  learner_is_black, id))
        /\ pushed' = [pushed EXCEPT ![id] = @ + 1]
        /\ games_completed' = fetch_add(games_completed).new
  /\ UNCHANGED <<config, turns_processed, opponent_state, done_,
                 games_processed, workers, updater, main_pc, learner,
                 opponent_network_ptr, heap, learner_is_black, applied>>
  /\ UNCHANGED <<gameVars, sessionVars, netVars, serverVars, sharedVars, searchVars, statusVars>>

InitCadence ==
  /\ board = ResetBoard
  /\ to_move = PlayerBlack
  /\ inventory = ResetInventory
  /\ last_move = NoMove
  /\ ply = 0
  /\ SessionIdle
  /\ FreshNetwork
  /\ NoClients
  /\ SharedIdle
  /\ NoSearch
  /\ config \in CadenceConfigs
  /\ queue_ = <<>>
  /\ done_ = FALSE
  /\ games_completed = 0
  /\ games_processed = 0
  /\ workers = [w \in Workers |-> IdleWorker]
  /\ updater = IdleUpdater
  /\ main_pc = "start"
  /\ learner = 0
  /\ opponent_network_ptr = 0
  /\ heap = <<>>
  /\ learner_is_black = TRUE
  /\ turns_processed = 0
  /\ opponent_state = OpponentState("self", 0)
  /\ pushed = [id \in 0 .. CadenceGames - 1 |-> 0]
  /\ applied = [id \in 0 .. CadenceGames - 1 |-> <<>>]

NextCadence ==
  \/ MainStartUpdater
  \/ UpdaterInit
  \/ \E winner \in {PlayerNone, PlayerBlack, PlayerWhite} : Produce(winner)
  \/ UpdaterPop
  \/ UpdaterTdUpdate
  \/ UpdaterBookkeeping

SpecCadence == InitCadence /\ [][NextCadence]_vars

\* The updater ends the processing of a game in this step.
GameProcessed == updater.pc = "update" /\ updater'.pc = "pop"

\* The learner's colour flips in this step.
Flipped == learner_is_black' # learner_is_black

\* The processed game at which the colour flips first: the first game past
\* the initial training games that is at least swap_interval.
FirstFlip(c) ==
  IF c.swap_interval > c.initial_training_games
    THEN c.swap_interval ELSE c.initial_training_games + 1

\* C30 as stated: the colour flips exactly at the end of the processed games
\* whose number is a multiple of swap_interval: first after swap_interval
\* games, then every swap_interval games.
C30_FlipEverySwapInterval ==
  [][/\ Flipped => GameProcessed
     /\ GameProcessed =>
          (Flipped <=> updater.current_game % config.swap_interval = 0)]_vars

\* C30 as amended: the colour never flips within the initial training
\* games; it flips first at the end of processed game
\* max(swap_interval, initial_training_games + 1) and from then on exactly
\* swap_interval processed games after the flip before, whatever the
\* promotions in between.
C30_FlipCadenceAfterBootstrap ==
  [][/\ Flipped => GameProcessed
     /\ GameProcessed =>
          /\ Flipped <=>
               updater.current_game =
                 IF updater.last_swap_game = 0 THEN FirstFlip(config)
                 ELSE updater.last_swap_game + config.swap_interval
          /\ Flipped => /\ updater'.last_swap_game = updater.current_game
                        /\ updater.current_game >
                             config.initial_training_games
          /\ ~Flipped => updater'.last_swap_game = updater.last_swap_game]_vars

\* With as many initial training games as the swap interval, the colour has
\* flipped a second time, swap_interval games after the first flip, and the
\* opponent was promoted on the way.
C30_Witness ==
  /\ config.initial_training_games >= config.swap_interval
  /\ config.swap_interval >= 2
  /\ updater.last_swap_game = FirstFlip(config) + config.swap_interval
  /\ learner_is_black
  /\ opponent_network_ptr >= 2

\* ---------------------------------------------------------------------
\* The promotion of the opponent in train_selfplay.cpp at the default
\* threshold, from the end of the initial training games on. The window is
\* scaled from 1000 games to 20, the smallest window in which 55 % is a
\* whole number of wins, and the initial training games with it, as in the
\* defaults (1000 and 1000).
\* ---------------------------------------------------------------------

\* config.evaluation_window and config.initial_training_games, scaled.
EvalWindow == 20

\* config.num_games: the games past the initial training that are explored.
PromotionGames == EvalWindow + 2

\* recent_wins after EvalWindow processed games: wins wins, at the old or at
\* the new end of the window.
Windows ==
  { [k \in 1 .. EvalWindow |-> IF old THEN k <= wins
                               ELSE k > EvalWindow - wins] :
      wins \in 0 .. EvalWindow, old \in BOOLEAN }

\* The trainer after the initial training games: every one of them pushed,
\* popped and trained on, the first opponent published, no flip and no
\* promotion yet (both wait for the end of the initial training).
InitPromotion ==
  /\ board = ResetBoard
  /\ to_move = PlayerBlack
  /\ inventory = ResetInventory
  /\ last_move = NoMove
  /\ ply = 0
  /\ SessionIdle
  /\ FreshNetwork
  /\ NoClients
  /\ SharedIdle
  /\ NoSearch
  /\ config = TrainingConfig(PromotionGames, EvalWindow, PromotionGames + 1,
                             EvalWindow, PromotionGames)
  /\ queue_ = <<>>
  /\ done_ = FALSE
  /\ games_completed = EvalWindow
  /\ games_processed = EvalWindow
  /\ workers = [w \in Workers |-> IdleWorker]
  /\ \E window \in Windows :
       updater = [IdleUpdater EXCEPT !.pc = "pop",
                                     !.current_game = EvalWindow,
                                     !.initial_opponent = 1,
                                     !.games_since_last_promotion = EvalWindow,
                                     !.recent_wins = window]
  /\ main_pc = "wait_opponent"
  /\ learner = EvalWindow
  /\ opponent_network_ptr = 1
  /\ heap = <<Snapshot(0)>>
  /\ learner_is_black = TRUE
  /\ turns_processed = 0
  /\ opponent_state = OpponentState("self", 0)
  /\ pushed = [id \in 0 .. PromotionGames - 1 |->
                 IF id < EvalWindow THEN 1 ELSE 0]
  /\ applied = [id \in 0 .. PromotionGames - 1 |->
                  IF id < EvalWindow THEN <<1>> ELSE <<>>]

NextPromotion ==
  \/ \E winner \in {PlayerNone, PlayerBlack, PlayerWhite} : Produce(winner)
  \/ UpdaterPop
  \/ UpdaterTdUpdate
  \/ UpdaterBookkeeping

SpecPromotion == InitPromotion /\ [][NextPromotion]_vars

\* The opponent the workers play against is replaced in this step.
Advance == opponent_network_ptr' # opponent_network_ptr

\* recent_wins with the game being processed in it.
WindowNow ==
  PushRecent(updater.recent_wins, learner_won(updater.result),
             config.evaluation_window)

\* C29, for the promotions of train_selfplay.cpp: the opponent advances only
\* at the end of the initial training games or when the learner's win rate
\* over the rolling window exceeds 55 %, and the window is emptied at every
\* advance.
C29_AdvanceOnlyAboveThreshold ==
  [][Advance =>
       /\ \/ updater.current_game = config.initial_training_games
          \/ RecentWins(WindowNow) * 100 > 55 * Len(WindowNow)
       /\ updater'.recent_wins = <<>>]_vars

\* ---------------------------------------------------------------------
\* The side that moves first in a training game.
\* ---------------------------------------------------------------------

\* worker_thread of train_selfplay.cpp: the starting player of the game
\* with this 0-based number.
start_player(game_num) ==
  IF (game_num + 1) % 2 = 1 THEN PlayerWhite ELSE PlayerBlack

\* C31: in every training game the side that moves first is fixed by the
\* parity of the game number: the first recorded state of an odd-numbered
\* game has White to move, that of an even-numbered game Black.
C31_StartByParity ==
  \A w \in Workers :
    (InGame(w) /\ workers[w].result.players # <<>>) =>
      workers[w].result.players[1] = start_player(workers[w].game_num)

\* ---------------------------------------------------------------------
\* The learning rate of a processed game.
\* ---------------------------------------------------------------------

\* C32: for every processed game the learning rate used is
\* lr_min + (lr_max - lr_min) / (1 + 19 p^2) with lr_max = 0.1,
\* lr_min = 0.005 and p the progress (game - 1) / (games - 1) clamped to
\* [0, 1]; so it is 0.1 for the first game and always within [0.005, 0.1].
C32_InverseSquareSchedule ==
  updater.pc = "update" =>
    /\ updater.current_lr =
         calculate_learning_rate(updater.current_game, config.num_games)
    /\ updater.current_game = 1 => updater.current_lr = Rat(1, 10)
    /\ ~RLess(updater.current_lr, Rat(1, 200))
    /\ ~RLess(Rat(1, 10), updater.current_lr)

\* ---------------------------------------------------------------------
\* The move cap of a training game.
\* ---------------------------------------------------------------------

\* C33: every training game ends after at most MAX_MOVES moves: a worker
\* still playing has made fewer, none has made or recorded more; a game that
\* has reached the cap is a draw; and every td_update for a drawn game has
\* target 0.
C33_CapIsADraw ==
  /\ [](\A w \in Workers :
          InGame(w) =>
            /\ workers[w].move_count <= MAX_MOVES
            /\ Len(workers[w].result.players) <= MAX_MOVES
            /\ workers[w].pc = "play" => workers[w].move_count < MAX_MOVES
            /\ workers[w].move_count = MAX_MOVES =>
                 /\ workers[w].pc = "push"
                 /\ workers[w].result.winner = PlayerNone)
  /\ [][(updater.pc = "update" /\ updater.result.winner = PlayerNone
           /\ applied' # applied) => updater'.target = 0]_vars

\* The updater has trained on a state of a game that reached the cap, after
\* the updates of another game.
C33_Witness ==
  /\ updater.pc = "update"
  /\ updater.result.winner = PlayerNone
  /\ Len(updater.result.players) = MAX_MOVES
  /\ applied[updater.result.id] # <<>>
  /\ updater.target = 0
  /\ \E id \in GameIds : id # updater.result.id /\ applied[id] # <<>>
  /\ learner > Len(applied[updater.result.id])

\* ---------------------------------------------------------------------
\* MCTS (mcts.cpp): search on a small position with the network of the
\* model. One step is one iteration of the loop in search: selection,
\* expansion, simulation, backpropagation.
\* ---------------------------------------------------------------------

\* The iterations of a search.
MaxIterations == 4

\* MCTSNode(state, move, parent)
MCTSNode(state, move, parent) ==
  [state |-> state, move_from_parent |-> move, parent |-> parent,
   children |-> <<>>, untried_moves |-> {}, is_fully_expanded |-> FALSE,
   visits |-> 0, total_value |-> Zero]

\* MCTS::is_terminal(state), MCTSNode::is_terminal()
is_terminal(state) ==
  \/ LegalMoves(state) = {}
  \/ IsWin(state, PlayerBlack)
  \/ IsWin(state, PlayerWhite)

\* MCTS::simulation(state): the values it can return; Crash when the
\* evaluation of a state that is not terminal ends the process.
simulation(state) ==
  IF is_terminal(state)
    THEN IF IsWin(state, PlayerBlack)
           THEN IF state.to_move = PlayerBlack
                  THEN {Rat(1, 1)} ELSE {Rat(-1, 1)}
         ELSE IF IsWin(state, PlayerWhite)
           THEN IF state.to_move = PlayerWhite
                  THEN {Rat(1, 1)} ELSE {Rat(-1, 1)}
         ELSE {Zero}
    ELSE EvaluateOutcomes(weights, state)

\* total_value / visits of a visited node.
MeanValue(node) == RDiv(node.total_value, Rat(node.visits, 1))

\* ucb1_value of child d is above that of child c of the same parent, or
\* equal with d earlier in the list: the exploration term is the same for
\* equal visits and larger for fewer visits (every child has been visited
\* and the parent more than once).
Outranks(t, d, c, pos_d, pos_c) ==
  \/ t[d].visits <= t[c].visits /\ RLess(MeanValue(t[c]), MeanValue(t[d]))
  \/ t[d].visits < t[c].visits /\ MeanValue(t[d]) = MeanValue(t[c])
  \/ /\ t[d].visits = t[c].visits
     /\ MeanValue(t[d]) = MeanValue(t[c])
     /\ pos_d < pos_c

\* MCTSNode::best_child: the first child of the largest ucb1_value. The
\* children it can be: those no other child outranks for sure.
best_child(t, n) ==
  LET cs == t[n].children
  IN { cs[k] : k \in { j \in 1 .. Len(cs) :
                         \A l \in 1 .. Len(cs) :
                           l = j \/ ~Outranks(t, cs[l], cs[j], l, j) } }

\* MCTS::selection(node): the nodes the descent can end at.
RECURSIVE selection(_, _)
selection(t, n) ==
  IF ~is_terminal(t[n].state) /\ t[n].is_fully_expanded
    THEN UNION { selection(t, c) : c \in best_child(t, n) }
    ELSE {n}

\* A backpropagation that adds the same value at every node.
RECURSIVE backpropagation_same_sign(_, _, _)
backpropagation_same_sign(t, n, value) ==
  IF n = 0 THEN t
  ELSE backpropagation_same_sign(
         [t EXCEPT ![n].visits = @ + 1,
                   ![n].total_value = RAdd(@, value)],
         t[n].parent, value)

\* MCTS::backpropagation(node, value)
RECURSIVE backpropagation(_, _, _)
backpropagation(t, n, value) ==
  IF n = 0 THEN t
  ELSE backpropagation(
         [t EXCEPT ![n].visits = @ + 1,
                   ![n].total_value = RAdd(@, value)],
         t[n].parent, RNeg(value))

\* search(s, iterations): the root node is created.
SearchStart(s) ==
  /\ tree = <<>>
  /\ ~best.returned
  /\ ~crashed
  /\ tree' = <<MCTSNode(s, NoMove, 0)>>
  /\ UNCHANGED <<iter, picked, best>>
  /\ UNCHANGED <<gameVars, sessionVars, netVars, serverVars, trainVars,
                 sharedVars, statusVars>>

\* One iteration of the loop in search. Selection ends at node n. Expansion
\* returns n when it is terminal; else it fills untried_moves on the first
\* visit, takes one of them at random, creates the child and returns it.
\* The simulation of the returned node's state gives the value, or ends the
\* process; the value is backed up from the returned node.
Iterate ==
  /\ tree # <<>>
  /\ ~best.returned
  /\ ~crashed
  /\ iter < MaxIterations
  /\ \E n \in selection(tree, 1) :
       IF is_terminal(tree[n].state)
         THEN \E value \in simulation(tree[n].state) :
                /\ tree' = backpropagation(tree, n, value)
                /\ picked' = [node |-> n, value |-> value]
                /\ iter' = iter + 1
                /\ UNCHANGED crashed
         ELSE LET untried == IF tree[n].untried_moves = {}
                                  /\ ~tree[n].is_fully_expanded
                               THEN LegalMoves(tree[n].state)
                               ELSE tree[n].untried_moves
              IN \E move \in untried :
                   LET child == Len(tree) + 1
                       new_state == ApplyMove(tree[n].state, move)
                       grown ==
                         Append([tree EXCEPT
                                   ![n].untried_moves = untried \ {move},
                                   ![n].children = Append(@, child),
                                   ![n].is_fully_expanded =
                                      (untried \ {move} = {})],
                                MCTSNode(new_state, move, n))
                   IN \E value \in simulation(new_state) :
                        IF value = Crash
                          THEN /\ crashed' = TRUE
                               /\ UNCHANGED <<tree, picked, iter>>
                          ELSE /\ tree' = backpropagation(grown, child, value)
                               /\ picked' = [node |-> child, value |-> value]
                               /\ iter' = iter + 1
                               /\ UNCHANGED crashed
  /\ UNCHANGED <<best, weights>>
  /\ UNCHANGED <<gameVars, sessionVars, serverVars, trainVars, sharedVars,
                 statusVars>>

\* search after the loop: the first child of the root with the most visits,
\* its move returned; Move() when the root has no child.
MostVisited(t) ==
  LET cs == t[1].children
  IN { cs[k] : k \in { j \in 1 .. Len(cs) :
                         /\ \A l \in 1 .. Len(cs) :
                              t[cs[l]].visits <= t[cs[j]].visits
                         /\ \A l \in 1 .. j - 1 :
                              t[cs[l]].visits < t[cs[j]].visits } }

SearchReturn ==
  /\ tree # <<>>
  /\ ~best.returned
  /\ ~crashed
  /\ iter = MaxIterations
  /\ best' =
       [returned |-> TRUE,
        move |-> IF tree[1].children = <<>> THEN NoMove
                 ELSE tree[CHOOSE c \in MostVisited(tree) : TRUE]
                        .move_from_parent]
  /\ UNCHANGED <<tree, iter, picked>>
  /\ UNCHANGED <<gameVars, sessionVars, netVars, serverVars, trainVars,
                 sharedVars, statusVars>>

\* A position without tiles in stock: pieces, black tiles, side to move.
Position(black, white, black_tiles, p) ==
  GameState([c \in 0 .. kBoardSize - 1 |->
               Cell(IF c \in black THEN PlayerBlack
                    ELSE IF c \in white THEN PlayerWhite ELSE PlayerNone,
                    IF c \in black_tiles THEN TileBlack ELSE TileNone)],
            p, [q \in Players |-> TileInventory(0, 0)])

\* The positions searched: a Black piece in the corner with one or no move
\* left, and a Black piece one row from its goal.
SearchRoots ==
  { Position({0}, {6}, {0}, PlayerBlack),
    Position({0}, {5}, {0}, PlayerWhite),
    Position({0}, {5}, {}, PlayerBlack),
    Position({15}, {9}, {}, PlayerBlack) }

InitSearch ==
  /\ board = ResetBoard
  /\ to_move = PlayerBlack
  /\ inventory = ResetInventory
  /\ last_move = NoMove
  /\ ply = 0
  /\ SessionIdle
  /\ FreshNetwork
  /\ NoClients
  /\ NoTraining
  /\ NoSearch

NextSearch ==
  \/ \E s \in SearchRoots : SearchStart(s)
  \/ Iterate
  \/ SearchReturn

SpecSearch == InitSearch /\ [][NextSearch]_vars

\* The result of a finished game for player p: 1 won, -1 lost (the other
\* player has won, or p is to move and has no legal move), 0 otherwise.
ResultFor(state, p) ==
  IF IsWin(state, p) THEN Rat(1, 1)
  ELSE IF IsWin(state, Opponent(p))
          \/ (state.to_move = p /\ IsLoss(state, p)) THEN Rat(-1, 1)
  ELSE Zero

\* C34: for a terminal node the simulation returns the result of the game
\* for the node's side to move: +1 if that side has won, -1 if it has lost,
\* which includes having no legal move, and 0 only for a draw.
C34_TerminalValueForSideToMove ==
  (picked.node # 0 /\ is_terminal(tree[picked.node].state)) =>
    picked.value = ResultFor(tree[picked.node].state,
                             tree[picked.node].state.to_move)

\* The steps from node e up to node n: 0 for e itself, -1 when n is not on
\* the path from e to the root.
RECURSIVE StepsUp(_, _, _)
StepsUp(t, e, n) ==
  IF e = 0 THEN -1
  ELSE IF e = n THEN 0
  ELSE LET d == StepsUp(t, t[e].parent, n)
       IN IF d < 0 THEN -1 ELSE d + 1

\* The visits of the nodes in a list.
RECURSIVE SumVisits(_, _)
SumVisits(t, cs) ==
  IF cs = <<>> THEN 0 ELSE t[Head(cs)].visits + SumVisits(t, Tail(cs))

\* C35: one iteration adds exactly one visit to each node on the path from
\* the simulated node up to the root and none to any other node; it adds the
\* simulated value to the simulated node and the value with alternating sign
\* to each successive ancestor; so after k iterations the root has k visits
\* and every node has at least as many visits as its children together.
C35_BackupAlongThePath ==
  /\ [][iter' = iter + 1 =>
          \A n \in DOMAIN tree' :
            LET before == IF n \in DOMAIN tree THEN tree[n]
                          ELSE MCTSNode(tree'[n].state,
                                        tree'[n].move_from_parent,
                                        tree'[n].parent)
                up == StepsUp(tree', picked'.node, n)
            IN /\ tree'[n].visits =
                    before.visits + (IF up >= 0 THEN 1 ELSE 0)
               /\ tree'[n].total_value =
                    IF up < 0 THEN before.total_value
                    ELSE IF up % 2 = 0
                      THEN RAdd(before.total_value, picked'.value)
                    ELSE RSub(before.total_value, picked'.value)]_vars
  /\ [](tree # <<>> =>
          /\ tree[1].visits = iter
          /\ \A n \in DOMAIN tree :
               tree[n].visits >= SumVisits(tree, tree[n].children))

\* The last iteration simulated a grandchild of the root with a value other
\* than 0; its parent has one visit more than its children together.
C35_Witness ==
  /\ picked.node # 0
  /\ tree[picked.node].parent > 1
  /\ picked.value # Zero
  /\ tree[tree[picked.node].parent].visits =
       SumVisits(tree, tree[tree[picked.node].parent].children) + 1
  /\ iter = MaxIterations

\* C37: the mean value of a child is measured for the player who chooses
\* among the children, the side to move at the parent: a child in which the
\* chooser has won the game has mean +1, a child in which the chooser's
\* opponent has won has mean -1.
C37_MeanIsTheChoosersValue ==
  \A n \in DOMAIN tree :
    (tree[n].parent # 0 /\ tree[n].visits > 0) =>
      LET chooser == tree[tree[n].parent].state.to_move
      IN /\ IsWin(tree[n].state, chooser) =>
              MeanValue(tree[n]) = Rat(1, 1)
         /\ IsWin(tree[n].state, Opponent(chooser)) =>
              MeanValue(tree[n]) = Rat(-1, 1)

\* ---------------------------------------------------------------------
\* select_move_epsilon_greedy of the trainers.
\* ---------------------------------------------------------------------

\* The values the loop of select_move_epsilon_greedy can give a move: main.cpp
\* takes -network.evaluate(next_state) (negated), train_alternating.cpp takes
\* network.evaluate(next_state).
MoveValues(w, s, m, negated) ==
  { IF negated THEN RNeg(v) ELSE v :
      v \in EvaluateOutcomes(w, ApplyMove(s, m)) \ {Crash} }

\* The moves of the largest value: a move whose value no other move's value
\* exceeds (the code returns the first of them in the list).
BestMoves(w, s, negated) ==
  LET valued == { <<m, MoveValues(w, s, m, negated)>> : m \in LegalMoves(s) }
      lows == { CHOOSE v \in q[2] : \A u \in q[2] : ~RLess(u, v) :
                  q \in valued }
      floor == CHOOSE v \in lows : \A u \in lows : ~RLess(v, u)
  IN { p[1] : p \in { q \in valued : \E v \in q[2] : ~RLess(v, floor) } }

\* select_move_epsilon_greedy(state, network, epsilon, rng): the moves it can
\* return. dist(rng) < epsilon is explore.
select_move_epsilon_greedy(w, s, explore, negated) ==
  IF LegalMoves(s) = {} THEN {NoMove}
  ELSE IF explore THEN LegalMoves(s)
  ELSE BestMoves(w, s, negated)

\* The exploration rates tried: none, the default 0.1, always.
Epsilons == {Rat(0, 1), Rat(1, 10), Rat(1, 1)}

\* dist(rng) lies in [0, 1): whether it can be below epsilon, or not below.
CanBe(explore, epsilon) ==
  IF explore THEN RLess(Zero, epsilon) ELSE RLess(epsilon, Rat(1, 1))

\* A trainer plays the move select_move_epsilon_greedy returned.
SelectMove(trainer, negated, epsilon, explore) ==
  /\ ply < MaxPicks
  /\ ~crashed
  /\ CanBe(explore, epsilon)
  /\ \E m \in select_move_epsilon_greedy(weights, State, explore, negated) :
       Play(m)
  /\ call' = [op |-> trainer, arg |-> <<epsilon, explore>>]
  /\ UNCHANGED <<move_history, ret, calls, netVars, serverVars, trainVars,
                 sharedVars, searchVars, statusVars>>

\* The loop's evaluate call reads outside its table and ends the process.
SelectCrash ==
  /\ ply < MaxPicks
  /\ ~crashed
  /\ PickCrashes(weights, State)
  /\ crashed' = TRUE
  /\ call' = [op |-> "select_move_epsilon_greedy", arg |-> <<>>]
  /\ UNCHANGED <<gameVars, move_history, ret, calls, weights, serverVars,
                 trainVars, sharedVars, searchVars, statusVars>>

NextSelect ==
  \/ \E epsilon \in Epsilons, explore \in BOOLEAN :
       SelectMove("main.cpp", TRUE, epsilon, explore)
  \/ \E epsilon \in Epsilons, explore \in BOOLEAN :
       SelectMove("train_alternating.cpp", FALSE, epsilon, explore)
  \/ SelectCrash

\* The networks a selection is tried with: fresh, and after one update
\* towards 1 on a position that follows Black's first move and is read
\* inside the tables.
SelectWeights ==
  {EmptyWeights} \cup
    { TdUpdate(EmptyWeights, ApplyMove(ResetState, m), Rat(1, 1), Rat(1, 2),
               Zero) :
        m \in { n \in LegalMoves(ResetState) :
                  ~ReadsOutside(ApplyMove(ResetState, n)) } }

\* The first selection of a game: GameState::reset(), Black to move.
InitSelect ==
  /\ board = ResetBoard
  /\ to_move = PlayerBlack
  /\ inventory = ResetInventory
  /\ last_move = NoMove
  /\ ply = 0
  /\ SessionIdle
  /\ weights \in SelectWeights
  /\ crashed = FALSE
  /\ NoClients
  /\ NoTraining
  /\ NoSearch

SpecSelect == InitSelect /\ [][NextSelect]_vars

\* The negamax-best moves of the first selection, per network.
FirstBest == [w \in SelectWeights |-> BestMoves(w, ResetState, TRUE)]

\* The moves m of s that maximise -evaluate(apply_move(s, m)).
NegamaxBest(w, s) ==
  IF s = ResetState /\ w \in SelectWeights THEN FirstBest[w]
  ELSE BestMoves(w, s, TRUE)

\* C36: a selection that is not exploring returns a move m that maximises
\* -evaluate(apply_move(S, m)) over the legal moves of S, in every trainer.
C36_GreedyIsNegamaxBest ==
  [][(ply' = ply + 1 /\ call'.op # "select_move_epsilon_greedy"
        /\ ~call'.arg[2])
     => last_move' \in NegamaxBest(weights, State)]_vars

\* ---------------------------------------------------------------------
\* The TCP game server: MOVE and the game status.
\* ---------------------------------------------------------------------

\* The moves a match is played to.
MaxMatchPly == 8

\* role_to_player(role)
role_to_player(role) ==
  IF role = "X" THEN PlayerBlack
  ELSE IF role = "O" THEN PlayerWhite ELSE PlayerNone

\* std::string(1, player_to_symbol(last_player)) + "_win"
WinOf(last_player) == IF last_player = PlayerBlack THEN "X_win" ELSE "O_win"

\* update_status(last_player) on the state after the move: g_status.
update_status(s, last_player) ==
  IF IsWin(s, last_player) THEN WinOf(last_player)
  ELSE IF IsLoss(s, Opponent(last_player)) THEN WinOf(last_player)
  ELSE "ongoing"

\* The moves of the MOVE payloads clients send, as convert_move gives
\* them: the steps to a neighbouring cell without a tile within files a
\* and b. Clients also send payloads that parse_move rejects.
MatchMoves ==
  { Move(p[1][1], p[1][2], p[2][1], p[2][2]) :
      p \in { q \in ((0 .. 1) \X (0 .. BOARD_H - 1)) \X
                     ((0 .. 1) \X (0 .. BOARD_H - 1)) :
                Abs(q[1][1] - q[2][1]) + Abs(q[1][2] - q[2][2]) = 1 } }

\* handle_move(session, payload) sends an error and returns: the sender is
\* a spectator, the payload does not parse, it is not the sender's turn, or
\* the move is not among the legal moves. (A payload that does not parse is
\* refused from every sender.)
MoveRefused(c) ==
  /\ sessions[c].thread = "running"
  /\ reply' = "ERROR"
  /\ call' = [op |-> "MOVE", arg |-> <<FALSE>>]
  /\ UNCHANGED <<gameVars, sessions, g_clients, g_status>>
  /\ UNCHANGED <<move_history, ret, calls, netVars, trainVars, sharedVars,
                 searchVars>>

\* handle_move(session, payload) for a player whose turn it is and a move
\* found among the legal moves: the move is applied, the status is set and
\* the state is broadcast (broadcast_state drops the sessions that are not
\* active and the one in `failed`, whose send throws).
MoveAccepted(c) ==
  /\ sessions[c].thread = "running"
  /\ ply < MaxMatchPly
  /\ role_to_player(sessions[c].role) = to_move
  /\ \E m \in LegalMoves(State) :
       /\ m \in MatchMoves
       /\ Play(m)
       /\ g_status' = update_status(ApplyMove(State, m), to_move)
  /\ \E failed \in SUBSET { d \in g_clients : sessions[d].active } :
       /\ Cardinality(failed) <= 1
       /\ sessions' = [d \in Clients |->
                         IF d \in failed
                           THEN [sessions[d] EXCEPT !.active = FALSE]
                         ELSE sessions[d]]
       /\ g_clients' = { d \in g_clients :
                           sessions[d].active /\ d \notin failed }
  /\ reply' = "STATE"
  /\ call' = [op |-> "MOVE", arg |-> <<TRUE>>]
  /\ UNCHANGED <<move_history, ret, calls, netVars, trainVars, sharedVars,
                 searchVars>>

\* handle_move(session, payload)
HandleMove(c) == MoveRefused(c) \/ MoveAccepted(c)

\* The server after start: no connection, the game at its initial state,
\* the status "ongoing".
InitMatch ==
  /\ board = ResetBoard
  /\ to_move = PlayerBlack
  /\ inventory = ResetInventory
  /\ last_move = NoMove
  /\ ply = 0
  /\ SessionIdle
  /\ FreshNetwork
  /\ NoClients
  /\ NoTraining
  /\ NoSearch

\* The connections of a match: the two players.
MatchClients == {1, 2}

NextMatch ==
  \/ \E c \in MatchClients : Accept(c)
  \/ \E c \in MatchClients : HandleMove(c)

SpecMatch == InitMatch /\ [][NextMatch]_vars

\* C40: once the status is X_win or O_win, no MOVE is accepted any more (the
\* board no longer changes) and the status does not return to "ongoing".
C40_WonGameIsFinal ==
  [][(g_status = "X_win" \/ g_status = "O_win") =>
       (board' = board /\ g_status' # "ongoing")]_vars

====
